---- MODULE Spec2Model ----
(***************************************************************************)
(* Model of the web-pages-tester crawl orchestrator (class Scanner of      *)
(* core/scanner.js): the frontier (urlQueue, visitedUrls), the run         *)
(* counters, the per-page session (scanPage) with every suspension point   *)
(* at which Playwright may reject, and the stream of outputs handed to     *)
(* onOutput.                                                               *)
(***************************************************************************)
EXTENDS Integers, Sequences, FiniteSets, TLC

(* ------------------------------------------------------------------ *)
(* Bounds of the model                                                 *)
(* ------------------------------------------------------------------ *)

\* number of same-origin pages the site under test has
NumUrls == 3

\* largest explicit maxPages value a caller configures (0..MaxPagesCfg)
MaxPagesCfg == 2

\* longest link list and longest queue given to discoverLinks' admission loop
\* when it is checked on its own
MaxLinks == 2

MaxQueue == 2

\* longest include and exclude pattern list given to shouldIncludeUrl
MaxPatterns == 2

\* most console entries and most network records in a page's bundle
MaxLogs == 2
MaxRequests == 2

(* ------------------------------------------------------------------ *)
(* Program constants                                                   *)
(* ------------------------------------------------------------------ *)

\* constructor default of config.maxPages
DefaultMaxPages == 100

\* fallback of the loop guard: this.config.maxPages || 100
FallbackMaxPages == 100

(* ------------------------------------------------------------------ *)
(* URLs, links and patterns                                            *)
(* ------------------------------------------------------------------ *)

\* A link string as page.evaluate returns it: valid says whether new URL(link)
\* parses it, origin and path are what the parse yields.
Url(o, p) == [valid |-> TRUE, origin |-> o, path |-> p]

SiteOrigin == "https://site"
OtherOrigin == "https://other"

\* the pages of the site under test
SitePages == { Url(SiteOrigin, p) : p \in 1..NumUrls }

\* a link to another origin, and a string new URL() rejects
ExtUrl == Url(OtherOrigin, 1)
BadLink == [valid |-> FALSE, origin |-> "", path |-> 0]

\* config.baseUrl
BaseUrl == Url(SiteOrigin, 1)

\* matchPattern(url, pattern): a glob pattern is represented by the set of URLs
\* the regular expression compiled from it accepts.
MatchPattern(u, pattern) == u \in pattern

\* ShouldIncludeUrl with the include patterns tested before the exclude patterns
ShouldIncludeUrlIncludeFirst(u, includePatterns, excludePatterns) ==
    IF Len(includePatterns) > 0
    THEN \E i \in 1..Len(includePatterns) : MatchPattern(u, includePatterns[i])
    ELSE ~\E i \in 1..Len(excludePatterns) : MatchPattern(u, excludePatterns[i])

\* shouldIncludeUrl(url, includePatterns, excludePatterns); an absent list is
\* the empty sequence (both are skipped by the code's tests).
ShouldIncludeUrl(u, includePatterns, excludePatterns) ==
    IF \E i \in 1..Len(excludePatterns) : MatchPattern(u, excludePatterns[i])
    THEN FALSE
    ELSE IF Len(includePatterns) > 0
         THEN \E i \in 1..Len(includePatterns) : MatchPattern(u, includePatterns[i])
         ELSE TRUE

(* ------------------------------------------------------------------ *)
(* Inputs: the caller's configuration and what the browser returns     *)
(* ------------------------------------------------------------------ *)

\* include/exclude pattern lists a caller passes
Filters ==
    { [include |-> <<>>, exclude |-> <<>>],
      [include |-> << SitePages \ {Url(SiteOrigin, 2)} >>,
       exclude |-> << {Url(SiteOrigin, 2)} >>] }

\* capture/blocking feature toggles a caller passes
Features ==
    { [blockExternalResources |-> FALSE, measurePerformance |-> TRUE,
       captureScreenshots |-> TRUE],
      [blockExternalResources |-> TRUE, measurePerformance |-> FALSE,
       captureScreenshots |-> FALSE] }

\* The configuration object given to the constructor. hasMaxPages = FALSE is a
\* caller that leaves maxPages out.
CallerConfigs ==
    { [hasMaxPages |-> h, maxPages |-> m, progressive |-> pr,
       prioritizeCritical |-> pc0, filter |-> f, features |-> ft] :
        h \in BOOLEAN, m \in 0..MaxPagesCfg, pr \in BOOLEAN, pc0 \in BOOLEAN,
        f \in Filters, ft \in Features }

\* constructor: defaults merged under the caller's values
Constructor(c) ==
    [ baseUrl |-> BaseUrl,
      maxPages |-> IF c.hasMaxPages THEN c.maxPages ELSE DefaultMaxPages,
      progressive |-> c.progressive,
      prioritizeCritical |-> c.prioritizeCritical,
      includePatterns |-> c.filter.include,
      excludePatterns |-> c.filter.exclude,
      blockExternalResources |-> c.features.blockExternalResources,
      measurePerformance |-> c.features.measurePerformance,
      captureScreenshots |-> c.features.captureScreenshots ]

\* The link lists page.evaluate may return for the page at u: none; the next page;
\* the page itself, a page further on twice and a malformed link; every page of
\* the site twice with a malformed and a foreign link between.
AllPagesSeq == [ i \in 1..NumUrls |-> Url(SiteOrigin, i) ]

NextPage(u) == Url(SiteOrigin, (u.path % NumUrls) + 1)

LinkLists(u) ==
    { <<>>,
      << NextPage(u) >>,
      << u, NextPage(NextPage(u)), BadLink, NextPage(NextPage(u)) >>,
      AllPagesSeq \o << BadLink, ExtUrl >> \o AllPagesSeq }

\* the severities of the issue lists detectIssues may return for a page
SeverityLists ==
    { <<>>,
      << "CRITICAL", "MEDIUM", "MEDIUM" >>,
      << "HIGH", "CRITICAL", "MEDIUM", "CRITICAL" >> }

\* the issue list detectIssues returns: one record per issue, ids distinct
DetectIssues(u, sevs) ==
    [ i \in 1..Len(sevs) |->
        [type |-> "issue", id |-> i, severity |-> sevs[i], url |-> u] ]

\* values generateId() may return for the run
RunIds == { "run-a", "run-b" }

(* ------------------------------------------------------------------ *)
(* State                                                               *)
(* ------------------------------------------------------------------ *)

VARIABLES
    pc,             \* position of scan()/scanPage()
    config,         \* this.config
    browser,        \* this.browser: "null" or "open"
    page,           \* the page context of the visit: "none", "open", "closed"
    visitedUrls,    \* this.visitedUrls
    urlQueue,       \* this.urlQueue
    pagesScanned,   \* this.pagesScanned
    issuesFound,    \* this.issuesFound
    criticalIssues, \* this.criticalIssues
    url,            \* the URL scanPage was called with
    runId,          \* const runId of scan()
    output,         \* the outputs handed to onOutput, in order
    error,          \* the exception propagating out of scan(): "none" or its origin
    failedAt,       \* the step of the latest visit that rejected inside try
    closeCalls,     \* number of browser.close() calls made
    input,          \* the arguments of the helper or detector function under call
    results         \* what the calls of that function returned, in call order

vars == << pc, config, browser, page, visitedUrls, urlQueue, pagesScanned,
           issuesFound, criticalIssues, url, runId, output, error, failedAt,
           closeCalls, input, results >>

\* input while no helper or detector function is under call
NoInput == [kind |-> "none"]

\* emit(output) with onOutput installed
Emit(out, e) == Append(out, e)

\* the Scanner after construction, before scan() is called
NewScanner ==
    /\ pc = "idle"
    /\ browser = "null"
    /\ page = "none"
    /\ visitedUrls = {}
    /\ urlQueue = <<>>
    /\ pagesScanned = 0
    /\ issuesFound = 0
    /\ criticalIssues = 0
    /\ url = BaseUrl
    /\ runId = "run-a"
    /\ output = <<>>
    /\ error = "none"
    /\ failedAt = "none"
    /\ closeCalls = 0

\* the Scanner after construction by any caller, before scan() is called
ScannerInit ==
    /\ NewScanner
    /\ config \in { Constructor(c) : c \in CallerConfigs }

Init ==
    /\ ScannerInit
    /\ input = NoInput
    /\ results = <<>>

(* ------------------------------------------------------------------ *)
(* Outputs                                                             *)
(* ------------------------------------------------------------------ *)

ScanStart(rid) == [type |-> "scan_start", runId |-> rid, baseUrl |-> BaseUrl]

PageScanning(u) == [type |-> "page", url |-> u, status |-> "scanning"]

PageComplete(u, issues) ==
    [type |-> "page", url |-> u, status |-> "complete", issues |-> issues]

PageFailed(u) == [type |-> "page", url |-> u, status |-> "failed"]

Progress(scanned, total, found, critical) ==
    [type |-> "progress", pagesScanned |-> scanned, totalPages |-> total,
     issuesFound |-> found, criticalIssues |-> critical]

\* ScanComplete with the progress output's totalPages estimate
ScanCompleteTotalVisited(rid, scanned, visited, queue, found) ==
    [type |-> "scan_complete", runId |-> rid,
     totalPages |-> Cardinality(visited) + Len(queue), issuesFound |-> found]

ScanComplete(rid, scanned, visited, queue, found) ==
    [type |-> "scan_complete", runId |-> rid, totalPages |-> scanned,
     issuesFound |-> found]

\* issues.filter(pred): the subsequence of the issues whose severity is (is not)
\* CRITICAL, in the list's order
RECURSIVE FilterCritical(_, _)
FilterCritical(issues, want) ==
    IF issues = <<>> THEN <<>>
    ELSE IF (Head(issues).severity = "CRITICAL") = want
         THEN << Head(issues) >> \o FilterCritical(Tail(issues), want)
         ELSE FilterCritical(Tail(issues), want)

(* ------------------------------------------------------------------ *)
(* scan(): start, launch, the loop                                     *)
(* ------------------------------------------------------------------ *)

\* scan() is called: runId is drawn and scan_start emitted
Scan ==
    /\ pc = "idle"
    /\ \E rid \in RunIds :
        /\ runId' = rid
        /\ output' = Emit(output, ScanStart(rid))
    /\ pc' = "launch"
    /\ UNCHANGED << input, results, config, browser, page, visitedUrls, urlQueue, pagesScanned,
                    issuesFound, criticalIssues, url, error, failedAt, closeCalls >>

\* LaunchResolves with the base URL put through the filter before it is queued
LaunchResolvesFiltered ==
    /\ pc = "launch"
    /\ browser' = "open"
    /\ urlQueue' = IF ShouldIncludeUrl(config.baseUrl, config.includePatterns,
                                       config.excludePatterns)
                   THEN Append(urlQueue, config.baseUrl)
                   ELSE urlQueue
    /\ pc' = "loop"
    /\ UNCHANGED << input, results, config, page, visitedUrls, pagesScanned, issuesFound,
                    criticalIssues, url, runId, output, error, failedAt, closeCalls >>

\* chromium.launch() resolves: the browser is kept and the base URL queued
LaunchResolves ==
    /\ pc = "launch"
    /\ browser' = "open"
    /\ urlQueue' = Append(urlQueue, config.baseUrl)
    /\ pc' = "loop"
    /\ UNCHANGED << input, results, config, page, visitedUrls, pagesScanned, issuesFound,
                    criticalIssues, url, runId, output, error, failedAt, closeCalls >>

\* LaunchRejects with scan_complete emitted on the failure path as well
LaunchRejectsThenCompletes ==
    /\ pc = "launch"
    /\ error' = "launch"
    /\ output' = Emit(output,
                      ScanComplete(runId, pagesScanned, visitedUrls, urlQueue, issuesFound))
    /\ pc' = "finally"
    /\ UNCHANGED << input, results, config, browser, page, visitedUrls, urlQueue, pagesScanned,
                    issuesFound, criticalIssues, url, runId, failedAt, closeCalls >>

\* chromium.launch() rejects: the try block is left with the exception pending
LaunchRejects ==
    /\ pc = "launch"
    /\ error' = "launch"
    /\ pc' = "finally"
    /\ UNCHANGED << input, results, config, browser, page, visitedUrls, urlQueue, pagesScanned,
                    issuesFound, criticalIssues, url, runId, output, failedAt,
                    closeCalls >>

\* this.config.maxPages || 100: 0 is falsy
MaxPagesLimit == IF config.maxPages = 0 THEN FallbackMaxPages ELSE config.maxPages

\* LoopGuard without the page limit
LoopGuardNoLimit == Len(urlQueue) > 0

\* the while condition
LoopGuard == Len(urlQueue) > 0 /\ pagesScanned < MaxPagesLimit

\* MarkVisited that leaves the set as it was
MarkVisitedForgotten(visited, u) == visited

\* this.visitedUrls.add(url)
MarkVisited(visited, u) == visited \cup {u}

\* One evaluation of the while condition with what follows it synchronously: the
\* shift and the visited test (continue, or the call of scanPage), or the loop's
\* exit and the scan_complete output.
Loop ==
    /\ pc = "loop"
    /\ IF LoopGuard
       THEN /\ urlQueue' = Tail(urlQueue)
            /\ IF Head(urlQueue) \in visitedUrls
               THEN /\ pc' = "loop"
                    /\ UNCHANGED << visitedUrls, url, failedAt >>
               ELSE /\ visitedUrls' = MarkVisited(visitedUrls, Head(urlQueue))
                    /\ url' = Head(urlQueue)
                    /\ failedAt' = "none"
                    /\ pc' = "newPage"
            /\ UNCHANGED output
       ELSE /\ output' = Emit(output,
                    ScanComplete(runId, pagesScanned, visitedUrls, urlQueue, issuesFound))
            /\ pc' = "finally"
            /\ UNCHANGED << urlQueue, visitedUrls, url, failedAt >>
    /\ UNCHANGED << input, results, config, browser, page, pagesScanned, issuesFound, criticalIssues,
                    runId, error, closeCalls >>

(* ------------------------------------------------------------------ *)
(* scanPage(url)                                                       *)
(* ------------------------------------------------------------------ *)

\* the first awaited step inside try: page.route when blocking is configured
\* (blockedResourceTypes is left unset by the callers modelled), else page.goto
FirstStep == IF config.blockExternalResources THEN "route" ELSE "goto"

\* the step after the settle wait, and after collectPerformance
AfterSettle ==
    IF config.measurePerformance THEN "performance"
    ELSE IF config.captureScreenshots THEN "screenshots" ELSE "links"

AfterPerformance == IF config.captureScreenshots THEN "screenshots" ELSE "links"

\* the awaited steps of the try block, each of which may reject
TrySteps == { "route", "goto", "settle", "performance", "screenshots", "links" }

\* browser.newPage() resolves; the 'scanning' output follows
NewPageResolves ==
    /\ pc = "newPage"
    /\ browser = "open"
    /\ page' = "open"
    /\ output' = Emit(output, PageScanning(url))
    /\ pc' = FirstStep
    /\ UNCHANGED << input, results, config, browser, visitedUrls, urlQueue, pagesScanned, issuesFound,
                    criticalIssues, url, runId, error, failedAt, closeCalls >>

\* 'Browser not initialized' is thrown, or browser.newPage() rejects: both happen
\* before the try block, so the exception leaves scanPage and the loop of scan()
NewPageRejects ==
    /\ pc = "newPage"
    /\ error' = "newPage"
    /\ pc' = "finally"
    /\ UNCHANGED << input, results, config, browser, page, visitedUrls, urlQueue, pagesScanned,
                    issuesFound, criticalIssues, url, runId, output, failedAt,
                    closeCalls >>

\* page.route(...) resolves
RouteInstalled ==
    /\ pc = "route"
    /\ pc' = "goto"
    /\ UNCHANGED << input, results, config, browser, page, visitedUrls, urlQueue, pagesScanned,
                    issuesFound, criticalIssues, url, runId, output, error, failedAt,
                    closeCalls >>

\* page.goto(url, {timeout: 30000}) resolves
GotoResolves ==
    /\ pc = "goto"
    /\ pc' = "settle"
    /\ UNCHANGED << input, results, config, browser, page, visitedUrls, urlQueue, pagesScanned,
                    issuesFound, criticalIssues, url, runId, output, error, failedAt,
                    closeCalls >>

\* page.waitForTimeout(1000) resolves
SettleResolves ==
    /\ pc = "settle"
    /\ pc' = AfterSettle
    /\ UNCHANGED << input, results, config, browser, page, visitedUrls, urlQueue, pagesScanned,
                    issuesFound, criticalIssues, url, runId, output, error, failedAt,
                    closeCalls >>

\* collectPerformance(page) resolves
PerformanceResolves ==
    /\ pc = "performance"
    /\ pc' = AfterPerformance
    /\ UNCHANGED << input, results, config, browser, page, visitedUrls, urlQueue, pagesScanned,
                    issuesFound, criticalIssues, url, runId, output, error, failedAt,
                    closeCalls >>

\* captureScreenshots(page, url) resolves
ScreenshotsResolve ==
    /\ pc = "screenshots"
    /\ pc' = "links"
    /\ UNCHANGED << input, results, config, browser, page, visitedUrls, urlQueue, pagesScanned,
                    issuesFound, criticalIssues, url, runId, output, error, failedAt,
                    closeCalls >>

\* AdmitLink without the urlQueue.includes test
AdmitLinkNoQueueCheck(queue, visited, link) ==
    IF ~link.valid THEN queue
    ELSE IF link.origin # config.baseUrl.origin THEN queue
    ELSE IF ~ShouldIncludeUrl(link, config.includePatterns, config.excludePatterns)
         THEN queue
    ELSE IF link \notin visited THEN Append(queue, link)
    ELSE queue

\* AdmitLink without the origin test
AdmitLinkNoOriginCheck(queue, visited, link) ==
    IF ~link.valid THEN queue
    ELSE IF ~ShouldIncludeUrl(link, config.includePatterns, config.excludePatterns)
         THEN queue
    ELSE IF link \notin visited /\ \A i \in 1..Len(queue) : queue[i] # link
         THEN Append(queue, link)
    ELSE queue

\* AdmitLink that puts an admitted link at the front of the queue
AdmitLinkUnshift(queue, visited, link) ==
    IF ~link.valid THEN queue
    ELSE IF link.origin # config.baseUrl.origin THEN queue
    ELSE IF ~ShouldIncludeUrl(link, config.includePatterns, config.excludePatterns)
         THEN queue
    ELSE IF link \notin visited /\ \A i \in 1..Len(queue) : queue[i] # link
         THEN << link >> \o queue
    ELSE queue

\* AdmitLink without the try block around new URL(link): a malformed link is
\* taken as it is
AdmitLinkMalformedKept(queue, visited, link) ==
    IF link.valid /\ link.origin # config.baseUrl.origin THEN queue
    ELSE IF link.valid
            /\ ~ShouldIncludeUrl(link, config.includePatterns, config.excludePatterns)
         THEN queue
    ELSE IF link \notin visited /\ \A i \in 1..Len(queue) : queue[i] # link
         THEN Append(queue, link)
    ELSE queue

\* the body of discoverLinks' for loop: the queue after one link
AdmitLink(queue, visited, link) ==
    IF ~link.valid THEN queue                                  \* new URL throws
    ELSE IF link.origin # config.baseUrl.origin THEN queue
    ELSE IF ~ShouldIncludeUrl(link, config.includePatterns, config.excludePatterns)
         THEN queue
    ELSE IF link \notin visited /\ \A i \in 1..Len(queue) : queue[i] # link
         THEN Append(queue, link)
    ELSE queue

\* discoverLinks' for loop over the links page.evaluate returned
RECURSIVE AdmitLinks(_, _, _)
AdmitLinks(queue, visited, links) ==
    IF links = <<>> THEN queue
    ELSE AdmitLinks(AdmitLink(queue, visited, Head(links)), visited, Tail(links))

\* ReportPage with every issue emitted after the 'complete' output
ReportPageAllAfter(out, u, issues) ==
    LET both == config.progressive /\ config.prioritizeCritical
    IN  out \o << PageComplete(u, issues) >>
            \o (IF both THEN issues ELSE <<>>)

\* ReportPage with the issue outputs depending on progressive alone, in
\* detectIssues' order after the 'complete' output when prioritizeCritical is off
ReportPageProgressiveOnly(out, u, issues) ==
    IF config.progressive /\ ~config.prioritizeCritical
    THEN out \o << PageComplete(u, issues) >> \o issues
    ELSE LET both == config.progressive /\ config.prioritizeCritical
         IN  out \o (IF both THEN FilterCritical(issues, TRUE) ELSE <<>>)
                 \o << PageComplete(u, issues) >>
                 \o (IF both THEN FilterCritical(issues, FALSE) ELSE <<>>)

\* ReportPage of a scanner that drops the issues below CRITICAL when
\* criticalOnly is set
ReportPageCriticalOnly(out, u, issues) ==
    LET both == config.progressive /\ config.prioritizeCritical
    IN  out \o (IF both THEN FilterCritical(issues, TRUE) ELSE <<>>)
            \o << PageComplete(u, issues) >>
            \o (IF both /\ ~config.criticalOnly
                THEN FilterCritical(issues, FALSE) ELSE <<>>)

\* the outputs of a visit that succeeded: the CRITICAL issues, the 'complete'
\* page output, the other issues
ReportPage(out, u, issues) ==
    LET both == config.progressive /\ config.prioritizeCritical
    IN  out \o (IF both THEN FilterCritical(issues, TRUE) ELSE <<>>)
            \o << PageComplete(u, issues) >>
            \o (IF both THEN FilterCritical(issues, FALSE) ELSE <<>>)

\* DiscoverLinksResolves with the counters assigned the page's numbers instead of
\* increased by them
DiscoverLinksResolvesPerPage ==
    /\ pc = "links"
    /\ \E links \in LinkLists(url), sevs \in SeverityLists :
        LET issues == DetectIssues(url, sevs)
        IN  /\ urlQueue' = AdmitLinks(urlQueue, visitedUrls, links)
            /\ issuesFound' = Len(issues)
            /\ criticalIssues' = Len(FilterCritical(issues, TRUE))
            /\ output' = ReportPage(output, url, issues)
    /\ pc' = "closePage"
    /\ UNCHANGED << input, results, config, browser, page, visitedUrls, pagesScanned, url, runId,
                    error, failedAt, closeCalls >>

\* The link evaluation of discoverLinks resolves, and all that follows it without
\* suspension: the admission loop, detectIssues, the counters, the outputs.
DiscoverLinksResolves ==
    /\ pc = "links"
    /\ \E links \in LinkLists(url), sevs \in SeverityLists :
        LET issues == DetectIssues(url, sevs)
        IN  /\ urlQueue' = AdmitLinks(urlQueue, visitedUrls, links)
            /\ issuesFound' = issuesFound + Len(issues)
            /\ criticalIssues' = criticalIssues + Len(FilterCritical(issues, TRUE))
            /\ output' = ReportPage(output, url, issues)
    /\ pc' = "closePage"
    /\ UNCHANGED << input, results, config, browser, page, visitedUrls, pagesScanned, url, runId,
                    error, failedAt, closeCalls >>

\* StepRejects with a link evaluation that rejects only after its links went
\* through the admission loop
StepRejectsLinksKept ==
    /\ pc \in TrySteps
    /\ failedAt' = pc
    /\ output' = Emit(output, PageFailed(url))
    /\ \E links \in LinkLists(url) :
          urlQueue' = IF pc = "links" THEN AdmitLinks(urlQueue, visitedUrls, links)
                      ELSE urlQueue
    /\ pc' = "closePage"
    /\ UNCHANGED << input, results, config, browser, page, visitedUrls, pagesScanned,
                    issuesFound, criticalIssues, url, runId, error, closeCalls >>

\* StepRejects of a scanPage that closes the page at the end of its try block
\* only: after the catch block the visit is over
StepRejectsSkipsClose ==
    /\ pc \in TrySteps
    /\ failedAt' = pc
    /\ output' = Emit(output, PageFailed(url))
    /\ pagesScanned' = pagesScanned + 1
    /\ pc' = "loop"
    /\ UNCHANGED << input, results, config, browser, page, visitedUrls, urlQueue,
                    issuesFound, criticalIssues, url, runId, error, closeCalls >>

\* StepRejects with a catch block that swallows the error without an output
StepRejectsSilent ==
    /\ pc \in TrySteps
    /\ failedAt' = pc
    /\ pc' = "closePage"
    /\ UNCHANGED << input, results, config, browser, page, visitedUrls, urlQueue, pagesScanned,
                    issuesFound, criticalIssues, url, runId, output, error, closeCalls >>

\* An awaited step of the try block rejects (page.goto also by its timeout): the
\* catch block emits the 'failed' output
StepRejects ==
    /\ pc \in TrySteps
    /\ failedAt' = pc
    /\ output' = Emit(output, PageFailed(url))
    /\ pc' = "closePage"
    /\ UNCHANGED << input, results, config, browser, page, visitedUrls, urlQueue, pagesScanned,
                    issuesFound, criticalIssues, url, runId, error, closeCalls >>

\* finally: page.close() resolves, scanPage returns, scan() counts the page and
\* emits the progress output
ClosePageResolves ==
    /\ pc = "closePage"
    /\ page' = "closed"
    /\ pagesScanned' = pagesScanned + 1
    /\ output' = IF config.progressive
                 THEN Emit(output,
                           Progress(pagesScanned + 1,
                                    Cardinality(visitedUrls) + Len(urlQueue),
                                    issuesFound, criticalIssues))
                 ELSE output
    /\ pc' = "loop"
    /\ UNCHANGED << input, results, config, browser, visitedUrls, urlQueue, issuesFound,
                    criticalIssues, url, runId, error, failedAt, closeCalls >>

\* finally: page.close() rejects; the exception leaves scanPage and the loop
ClosePageRejects ==
    /\ pc = "closePage"
    /\ error' = "pageClose"
    /\ pc' = "finally"
    /\ UNCHANGED << input, results, config, browser, page, visitedUrls, urlQueue, pagesScanned,
                    issuesFound, criticalIssues, url, runId, output, failedAt,
                    closeCalls >>

(* ------------------------------------------------------------------ *)
(* close() in scan()'s finally                                         *)
(* ------------------------------------------------------------------ *)

\* Close reached only when the try block ended without an exception
CloseOnlyOnSuccess ==
    /\ pc = "finally"
    /\ IF browser = "open" /\ error = "none"
       THEN /\ browser' = "null"
            /\ closeCalls' = closeCalls + 1
       ELSE UNCHANGED << browser, closeCalls >>
    /\ pc' = IF error = "none" THEN "returned" ELSE "rejected"
    /\ UNCHANGED << input, results, config, page, visitedUrls, urlQueue, pagesScanned, issuesFound,
                    criticalIssues, url, runId, output, error, failedAt >>

\* close(): browser.close() is called when a browser is held and resolves; scan()
\* then returns, or rejects with the pending exception
Close ==
    /\ pc = "finally"
    /\ IF browser = "open"
       THEN /\ browser' = "null"
            /\ closeCalls' = closeCalls + 1
       ELSE UNCHANGED << browser, closeCalls >>
    /\ pc' = IF error = "none" THEN "returned" ELSE "rejected"
    /\ UNCHANGED << input, results, config, page, visitedUrls, urlQueue, pagesScanned, issuesFound,
                    criticalIssues, url, runId, output, error, failedAt >>

\* close(): browser.close() rejects; this.browser is not reset and the exception
\* replaces the pending one
CloseRejects ==
    /\ pc = "finally"
    /\ browser = "open"
    /\ closeCalls' = closeCalls + 1
    /\ error' = "browserClose"
    /\ pc' = "rejected"
    /\ UNCHANGED << input, results, config, browser, page, visitedUrls, urlQueue, pagesScanned,
                    issuesFound, criticalIssues, url, runId, output, failedAt >>

(* ------------------------------------------------------------------ *)
(* Specifications                                                      *)
(* ------------------------------------------------------------------ *)

Next ==
    \/ Scan
    \/ LaunchResolves
    \/ LaunchRejects
    \/ Loop
    \/ NewPageResolves
    \/ NewPageRejects
    \/ RouteInstalled
    \/ GotoResolves
    \/ SettleResolves
    \/ PerformanceResolves
    \/ ScreenshotsResolve
    \/ DiscoverLinksResolves
    \/ StepRejects
    \/ ClosePageResolves
    \/ ClosePageRejects
    \/ Close
    \/ CloseRejects

Spec == Init /\ [][Next]_vars

\* every awaited call eventually resolves or rejects
FairSpec == Spec /\ WF_vars(Next)

(* ------------------------------------------------------------------ *)
(* discoverLinks' admission loop on its own                             *)
(* ------------------------------------------------------------------ *)

SeqsUpTo(S, n) == UNION { [1..k -> S] : k \in 0..n }

Range(q) == { q[i] : i \in 1..Len(q) }

\* every link string a page may hold
Links == SitePages \cup { ExtUrl, BadLink }

\* Frontiers the loop of scan() can be in (the queue without duplicates and
\* disjoint from the visited set), each with a link list
AdmitInputs ==
    { [kind |-> "admitLinks", queue |-> q, visited |-> v, links |-> l] :
        q \in { x \in SeqsUpTo(SitePages, MaxQueue) :
                  \A i, j \in 1..Len(x) : i # j => x[i] # x[j] },
        v \in SUBSET SitePages,
        l \in SeqsUpTo(Links, MaxLinks) }

\* a Scanner with default settings and any of the filters
AdmitInit ==
    /\ ScannerInit
    /\ config.maxPages = DefaultMaxPages
    /\ config.progressive /\ config.prioritizeCritical
    /\ ~config.blockExternalResources
    /\ input \in { x \in AdmitInputs : Range(x.queue) \cap x.visited = {} }
    /\ results = <<>>

\* discoverLinks' for loop runs over input.links
CallAdmitLinks ==
    /\ input.kind = "admitLinks"
    /\ results = <<>>
    /\ results' = << AdmitLinks(input.queue, input.visited, input.links) >>
    /\ UNCHANGED << input, pc, config, browser, page, visitedUrls, urlQueue,
                    pagesScanned, issuesFound, criticalIssues, url, runId, output,
                    error, failedAt, closeCalls >>

AdmitSpec == AdmitInit /\ [][CallAdmitLinks]_vars

(* ------------------------------------------------------------------ *)
(* shouldIncludeUrl and matchPattern on URL and pattern texts          *)
(* ------------------------------------------------------------------ *)

\* s.replace(/c/g, to) for a one-character c
RECURSIVE ReplaceAll(_, _, _)
ReplaceAll(s, c, to) ==
    IF s = "" THEN ""
    ELSE (IF SubSeq(s, 1, 1) = c THEN to ELSE SubSeq(s, 1, 1))
         \o ReplaceAll(Tail(s), c, to)

\* the regular expression source matchPattern builds from a glob pattern
GlobToRegex(pattern) == ReplaceAll(ReplaceAll(pattern, "*", ".*"), "?", ".")

\* one regular-expression atom against one character: '.' is any character
AtomMatches(atom, ch) == atom = "." \/ atom = ch

\* Whether the regular expression matches a prefix of text. The expressions
\* built here hold literal characters, '.', and '*' after an atom.
RECURSIVE MatchHere(_, _)
MatchHere(regex, text) ==
    IF regex = "" THEN TRUE
    ELSE IF Len(regex) >= 2 /\ SubSeq(regex, 2, 2) = "*"
    THEN \E k \in 0..Len(text) :
            /\ \A i \in 1..k : AtomMatches(SubSeq(regex, 1, 1), SubSeq(text, i, i))
            /\ MatchHere(SubSeq(regex, 3, Len(regex)), SubSeq(text, k + 1, Len(text)))
    ELSE /\ text # ""
         /\ AtomMatches(SubSeq(regex, 1, 1), SubSeq(text, 1, 1))
         /\ MatchHere(Tail(regex), Tail(text))

\* new RegExp(regex).test(text): a match may start anywhere
RegexTest(regex, text) ==
    \E i \in 1..(Len(text) + 1) : MatchHere(regex, SubSeq(text, i, Len(text)))

\* matchPattern(url, pattern) on texts
MatchPatternText(urlText, pattern) == RegexTest(GlobToRegex(pattern), urlText)

\* URL texts and glob patterns shouldIncludeUrl is called with
UrlTexts ==
    { "http://s/", "http://s/admin/x", "http://s/a.pdf", "http://s/b/admin" }

GlobPatterns == { "*", "*/admin/*", "s/?.pdf" }

\* the set of URL texts a glob pattern accepts: the pattern as MatchPattern has it
Accepts(pattern) == { u \in UrlTexts : MatchPatternText(u, pattern) }

FilterInputs ==
    { [kind |-> "shouldIncludeUrl", url |-> u, includePatterns |-> inc,
       excludePatterns |-> exc] :
        u \in UrlTexts,
        inc \in SeqsUpTo(GlobPatterns, MaxPatterns),
        exc \in SeqsUpTo(GlobPatterns, MaxPatterns) }

\* a scanner constructed with the default configuration, before scan() is called
IdleScanner ==
    /\ ScannerInit
    /\ config = Constructor([hasMaxPages |-> FALSE, maxPages |-> 0,
                             progressive |-> TRUE, prioritizeCritical |-> TRUE,
                             filter |-> [include |-> <<>>, exclude |-> <<>>],
                             features |-> [blockExternalResources |-> FALSE,
                                           measurePerformance |-> TRUE,
                                           captureScreenshots |-> TRUE]])

FilterInit ==
    /\ IdleScanner
    /\ input \in FilterInputs
    /\ results = <<>>

\* shouldIncludeUrl(input.url, input.includePatterns, input.excludePatterns)
CallShouldIncludeUrl ==
    /\ input.kind = "shouldIncludeUrl"
    /\ results = <<>>
    /\ results' =
          << ShouldIncludeUrl(input.url,
                 [i \in 1..Len(input.includePatterns) |->
                     Accepts(input.includePatterns[i])],
                 [i \in 1..Len(input.excludePatterns) |->
                     Accepts(input.excludePatterns[i])]) >>
    /\ UNCHANGED << input, pc, config, browser, page, visitedUrls, urlQueue,
                    pagesScanned, issuesFound, criticalIssues, url, runId, output,
                    error, failedAt, closeCalls >>

FilterSpec == FilterInit /\ [][CallShouldIncludeUrl]_vars

(* ------------------------------------------------------------------ *)
(* Console-error messages: determineErrorSeverity and suggestFix       *)
(* ------------------------------------------------------------------ *)

UpperLetters == "ABCDEFGHIJKLMNOPQRSTUVWXYZ"
LowerLetters == "abcdefghijklmnopqrstuvwxyz"

\* String.prototype.toLowerCase on text of ASCII characters
RECURSIVE ToLowerCase(_)
ToLowerCase(s) ==
    IF s = "" THEN ""
    ELSE LET c == SubSeq(s, 1, 1)
             up == { i \in 1..Len(UpperLetters) : SubSeq(UpperLetters, i, i) = c }
         IN  (IF up = {} THEN c
              ELSE LET i == CHOOSE i \in up : TRUE IN SubSeq(LowerLetters, i, i))
             \o ToLowerCase(Tail(s))

\* String.prototype.includes
Includes(s, sub) ==
    \E i \in 1..(Len(s) - Len(sub) + 1) : SubSeq(s, i, i + Len(sub) - 1) = sub

\* determineErrorSeverity with the HIGH keywords tested before the CRITICAL ones
DetermineErrorSeverityHighFirst(message) ==
    LET lowerMessage == ToLowerCase(message) IN
    IF \/ Includes(lowerMessage, "error")
       \/ Includes(lowerMessage, "exception")
       \/ Includes(lowerMessage, "failed")
    THEN "HIGH"
    ELSE IF \/ Includes(lowerMessage, "uncaught")
            \/ Includes(lowerMessage, "fatal")
            \/ Includes(lowerMessage, "critical")
    THEN "CRITICAL"
    ELSE "MEDIUM"

\* determineErrorSeverity(message)
DetermineErrorSeverity(message) ==
    LET lowerMessage == ToLowerCase(message) IN
    IF \/ Includes(lowerMessage, "uncaught")
       \/ Includes(lowerMessage, "fatal")
       \/ Includes(lowerMessage, "critical")
    THEN "CRITICAL"
    ELSE IF \/ Includes(lowerMessage, "error")
            \/ Includes(lowerMessage, "exception")
            \/ Includes(lowerMessage, "failed")
    THEN "HIGH"
    ELSE "MEDIUM"

IsQuote(c) == c = "'" \/ c = "\""

\* message.match(/Cannot find module ['"](.+)['"]/): the places where the
\* expression can start, and the captured group of the leftmost match with the
\* longest capture; <<>> of no place stands for a null match
ModuleMatchStarts(message) ==
    LET head == "Cannot find module " IN
    { i \in 1..(Len(message) - Len(head) - 2) :
        /\ SubSeq(message, i, i + Len(head) - 1) = head
        /\ IsQuote(SubSeq(message, i + Len(head), i + Len(head)))
        /\ \E j \in (i + Len(head) + 2)..Len(message) : IsQuote(SubSeq(message, j, j)) }

ModuleMatch(message) ==
    LET head   == "Cannot find module "
        i      == CHOOSE i \in ModuleMatchStarts(message) :
                      \A k \in ModuleMatchStarts(message) : i <= k
        first  == i + Len(head) + 1
        closes == { j \in (first + 1)..Len(message) : IsQuote(SubSeq(message, j, j)) }
        last   == CHOOSE j \in closes : \A k \in closes : k <= j
    IN  SubSeq(message, first, last - 1)

\* A fix suggestion; the confidence is in hundredths (0.95 is 95), and the
\* operations are recorded by their types
Fix(description, confidence, operations) ==
    [present |-> TRUE, description |-> description, confidence |-> confidence,
     operations |-> operations]

\* suggestFix returning undefined
NoFix == [present |-> FALSE]

\* The rules of suggestFix that follow the missing-dependency rule, in the
\* order of the code
LaterRules(message) ==
    LET lowerMessage == ToLowerCase(message)
        has(k) == Includes(lowerMessage, k)
    IN
    IF has("timeout") \/ has("etimedout")
    THEN Fix("Increase timeout or check network connectivity", 70, << "BASH" >>)
    ELSE IF has("hydration") \/ has("hydrate")
    THEN Fix("Fix server/client rendering mismatch - ensure HTML matches between server and client", 85, << "EDIT" >>)
    ELSE IF has("cors") \/ has("access-control-allow-origin")
    THEN Fix("Add CORS headers to API endpoint", 90, << "EDIT" >>)
    ELSE IF has("out of memory") \/ has("heap")
    THEN Fix("Investigate memory leak - check for uncleaned listeners or large object retention", 80, << "BASH" >>)
    ELSE IF has("undefined is not") \/ has("cannot read property")
    THEN Fix("Add null/undefined checks before accessing properties", 85, << "EDIT" >>)
    ELSE IF has("rendered more hooks") \/ has("hooks can only be called")
    THEN Fix("Fix hook call order - hooks must be called in the same order on every render", 90, << "EDIT" >>)
    ELSE IF has("expected") /\ has("indent")
    THEN Fix("Fix indentation", 95, << "BASH" >>)
    ELSE IF has("type") /\ has("not assignable")
    THEN Fix("Fix TypeScript type mismatch", 75, << "EDIT" >>)
    ELSE IF has("prisma") /\ has("unique constraint")
    THEN Fix("Handle duplicate entry - add upsert or unique check", 85, << "EDIT" >>)
    ELSE IF has("query") /\ has("loop")
    THEN Fix("Fix N+1 query - use include/select to eager load relations", 90, << "EDIT" >>)
    ELSE IF has("env") \/ has("environment variable")
    THEN Fix("Add missing environment variable to .env file", 85, << "EDIT" >>)
    ELSE IF has("econnrefused") \/ has("connection refused")
    THEN Fix("Database not running - start database service", 90, << "BASH" >>)
    ELSE IF has("jwt") \/ (has("token") /\ has("invalid"))
    THEN Fix("Token expired or invalid - refresh authentication", 80, << "BASH" >>)
    ELSE IF has("429") \/ has("too many requests")
    THEN Fix("Rate limit exceeded - implement exponential backoff", 85, << "EDIT" >>)
    ELSE IF has("cache") /\ has("stale")
    THEN Fix("Clear cache or reduce TTL", 75, << "BASH" >>)
    ELSE IF Includes(message, "404") /\ has("image")
    THEN Fix("Upload missing image or update image path", 80, << "EDIT" >>)
    ELSE IF has("bundle") /\ has("size")
    THEN Fix("Reduce bundle size - use code splitting and tree shaking", 70, << "EDIT" >>)
    ELSE IF has("key") /\ has("unique")
    THEN Fix("Add unique key prop to list items", 95, << "EDIT" >>)
    ELSE IF has("deprecated")
    THEN Fix("Update to new API - check migration guide", 75, << "EDIT" >>)
    ELSE IF has("maximum call stack") \/ has("infinite")
    THEN Fix("Fix infinite recursion - add base case or loop condition", 90, << "EDIT" >>)
    ELSE NoFix

\* suggestFix with the missing-dependency rule tested before the
\* INSUFFICIENT_PATH rule
SuggestFixModuleFirst(message, pageUrl) ==
    IF Includes(message, "Cannot find module")
            /\ ModuleMatchStarts(message) # {}
    THEN Fix("Install missing dependency: " \o ModuleMatch(message), 90, << "BASH" >>)
    ELSE IF Includes(message, "INSUFFICIENT_PATH")
    THEN Fix("Replace next/link with next-intl Link", 95, << "EDIT" >>)
    ELSE LaterRules(message)

\* suggestFix with the missing-dependency rule ending the evaluation as soon as
\* its keyword is found
SuggestFixModuleStops(message, pageUrl) ==
    IF Includes(message, "INSUFFICIENT_PATH")
    THEN Fix("Replace next/link with next-intl Link", 95, << "EDIT" >>)
    ELSE IF Includes(message, "Cannot find module")
    THEN IF ModuleMatchStarts(message) # {}
         THEN Fix("Install missing dependency: " \o ModuleMatch(message), 90, << "BASH" >>)
         ELSE NoFix
    ELSE LaterRules(message)

\* suggestFix(message, url); a missing-dependency message whose module name is
\* not quoted falls through to the later rules
SuggestFix(message, pageUrl) ==
    IF Includes(message, "INSUFFICIENT_PATH")
    THEN Fix("Replace next/link with next-intl Link", 95, << "EDIT" >>)
    ELSE IF Includes(message, "Cannot find module")
            /\ ModuleMatchStarts(message) # {}
    THEN Fix("Install missing dependency: " \o ModuleMatch(message), 90, << "BASH" >>)
    ELSE LaterRules(message)

\* Pieces of console-error messages, and the messages made of one piece or of
\* two pieces joined by a space
MessageFragments ==
    { "INSUFFICIENT_PATH", "Cannot find module 'lodash'",
      "Cannot find module lodash", "from \"x\"", "Request Timeout",
      "ETIMEDOUT", "Hydration failed", "CORS", "heap",
      "undefined is not a function", "Rendered more hooks", "Expected",
      "indent", "Type", "not assignable", "Prisma", "Unique constraint",
      "query", "loop", "environment", "ECONNREFUSED", "jwt", "Token",
      "invalid", "429", "cache", "stale", "404", "Image", "bundle", "size",
      "key", "Deprecated API used", "Maximum call stack",
      "Uncaught TypeError: x is undefined", "Failed to fetch resource",
      "FATAL", "warning" }

Messages ==
    MessageFragments
        \cup { a \o " " \o b : a \in MessageFragments, b \in MessageFragments }

MessageInit ==
    /\ IdleScanner
    /\ input \in { [kind |-> "message", message |-> m] : m \in Messages }
    /\ results = <<>>

\* determineErrorSeverity(input.message)
CallDetermineErrorSeverity ==
    /\ input.kind = "message"
    /\ results = <<>>
    /\ results' = << [call |-> "determineErrorSeverity",
                      value |-> DetermineErrorSeverity(input.message)] >>
    /\ UNCHANGED << input, pc, config, browser, page, visitedUrls, urlQueue,
                    pagesScanned, issuesFound, criticalIssues, url, runId, output,
                    error, failedAt, closeCalls >>

\* suggestFix(input.message, url)
CallSuggestFix ==
    /\ input.kind = "message"
    /\ results = <<>>
    /\ results' = << [call |-> "suggestFix",
                      value |-> SuggestFix(input.message, BaseUrl)] >>
    /\ UNCHANGED << input, pc, config, browser, page, visitedUrls, urlQueue,
                    pagesScanned, issuesFound, criticalIssues, url, runId, output,
                    error, failedAt, closeCalls >>

MessageNext == CallDetermineErrorSeverity \/ CallSuggestFix

MessageSpec == MessageInit /\ [][MessageNext]_vars

(* ------------------------------------------------------------------ *)
(* detectIssues on one page's bundle                                   *)
(* ------------------------------------------------------------------ *)

\* an optional field: absent (undefined), or present with a value
Absent == [present |-> FALSE]
Present(v) == [present |-> TRUE, value |-> v]

\* Times are kept in tenths of a millisecond, so that a reading need not be a
\* whole number of milliseconds
Ms(n) == n * 10

\* Math.round of a time, in milliseconds: halves round up
MathRound(t) == (t + 5) \div 10

Digits == "0123456789"
IsDigit(c) == \E d \in 1..Len(Digits) : SubSeq(Digits, d, d) = c
IsSpace(c) == c = " " \/ c = "\t"

\* whether s[a..b] is a non-empty run of digits
AllDigits(s, a, b) == a <= b /\ \A k \in a..b : IsDigit(SubSeq(s, k, k))

\* parseInt of a run of digits
RECURSIVE ParseInt(_)
ParseInt(s) ==
    IF s = "" THEN 0
    ELSE LET last == SubSeq(s, Len(s), Len(s))
             d == CHOOSE d \in 1..Len(Digits) : SubSeq(Digits, d, d) = last
         IN  ParseInt(SubSeq(s, 1, Len(s) - 1)) * 10 + (d - 1)

\* The places p in s where ":digits:digit" starts, as the two location
\* expressions need it
LocationTails(s) ==
    { p \in 1..Len(s) :
        /\ SubSeq(s, p, p) = ":"
        /\ \E q \in (p + 2)..(Len(s) - 1) :
              /\ SubSeq(s, q, q) = ":"
              /\ AllDigits(s, p + 1, q - 1)
              /\ IsDigit(SubSeq(s, q + 1, q + 1)) }

\* the file, line and column read at the tail that starts at p, the file
\* starting at f
LocationAt(s, f, p) ==
    LET q == CHOOSE q \in (p + 2)..(Len(s) - 1) :
                 SubSeq(s, q, q) = ":" /\ AllDigits(s, p + 1, q - 1)
        e == CHOOSE e \in (q + 1)..Len(s) :
                 /\ AllDigits(s, q + 1, e)
                 /\ (e = Len(s) \/ ~IsDigit(SubSeq(s, e + 1, e + 1)))
    IN  [present |-> TRUE,
         file    |-> SubSeq(s, f, p - 1),
         line    |-> ParseInt(SubSeq(s, p + 1, q - 1)),
         column  |-> ParseInt(SubSeq(s, q + 1, e))]

\* source.match(/(.+):(\d+):(\d+)$/): the column's digits end the text
SourceLocation(source) ==
    LET tails == { p \in LocationTails(source) :
                     /\ p >= 2
                     /\ \E q \in (p + 2)..(Len(source) - 1) :
                           /\ SubSeq(source, q, q) = ":"
                           /\ AllDigits(source, p + 1, q - 1)
                           /\ AllDigits(source, q + 1, Len(source)) }
    IN  IF tails = {} THEN Absent
        ELSE LocationAt(source, 1, CHOOSE p \in tails : TRUE)

\* message.match(/at\s+(.+):(\d+):(\d+)/): the leftmost "at" followed by white
\* space from which a match exists, the longest white space, the longest file
MessageLocation(message) ==
    LET tails  == LocationTails(message)
        starts == { i \in 1..(Len(message) - 3) :
                      /\ SubSeq(message, i, i + 1) = "at"
                      /\ IsSpace(SubSeq(message, i + 2, i + 2))
                      /\ \E p \in tails : p > i + 3 }
    IN  IF starts = {} THEN Absent
        ELSE LET i  == CHOOSE i \in starts : \A k \in starts : i <= k
                 fs == { f \in (i + 3)..Len(message) :
                           /\ \A k \in (i + 2)..(f - 1) :
                                 IsSpace(SubSeq(message, k, k))
                           /\ \E p \in tails : p > f }
                 f  == CHOOSE f \in fs : \A k \in fs : k <= f
                 p  == CHOOSE p \in tails : \A k \in tails : k <= p
             IN  LocationAt(message, f, p)

\* extractLocation(message, source); an empty source counts as no source
ExtractLocation(message, source) ==
    IF source.present /\ source.value # "" /\ SourceLocation(source.value).present
    THEN SourceLocation(source.value)
    ELSE MessageLocation(message)

\* an issue as the three plain detectors build it: no stack trace, no
\* location, no fix, not auto-fixable
NewIssue(id, severity, category, pageUrl, message, timestamp) ==
    [id |-> id, type |-> "issue", severity |-> severity, category |-> category,
     url |-> pageUrl, message |-> message, stackTrace |-> Absent,
     location |-> Absent, fix |-> NoFix, autoFixable |-> FALSE,
     timestamp |-> timestamp]

\* (issue.fix?.confidence ?? 0) >= 0.8
AutoFixableFromThreshold(fix) == (IF fix.present THEN fix.confidence ELSE 0) >= 80

\* (issue.fix?.confidence ?? 0) > 0.8
AutoFixable(fix) == (IF fix.present THEN fix.confidence ELSE 0) > 80

\* the issue detectConsoleErrors builds from one console entry of type 'error'
ConsoleIssue(log, pageUrl, id, timestamp) ==
    LET fix == SuggestFix(log.message, pageUrl) IN
    [NewIssue(id, DetermineErrorSeverity(log.message), "CONSOLE_ERROR", pageUrl,
              log.message, timestamp)
        EXCEPT !.stackTrace = log.stackTrace,
               !.location = ExtractLocation(log.message, log.source),
               !.fix = fix,
               !.autoFixable = AutoFixable(fix)]

\* detectConsoleErrors(context); the k-th issue built takes the k-th identifier
\* and the k-th clock reading after the first `base` ones
DetectConsoleErrors(context, ids, stamps, base) ==
    LET errors == SelectSeq(context.consoleLogs, LAMBDA log : log.type = "error")
    IN  [k \in 1..Len(errors) |->
            ConsoleIssue(errors[k], context.url, ids[base + k], stamps[base + k])]

\* the network issue, rated HIGH whatever the status
NetworkIssueAlwaysHigh(req, pageUrl, id, timestamp) ==
    NewIssue(id, "HIGH", "NETWORK_FAILURE", pageUrl,
             "Failed request: " \o req.method \o " " \o req.url
                 \o " (" \o ToString(req.status) \o ")",
             timestamp)

\* the issue detectNetworkFailures builds from one failed request
NetworkIssue(req, pageUrl, id, timestamp) ==
    NewIssue(id, IF req.status = 404 THEN "MEDIUM" ELSE "HIGH", "NETWORK_FAILURE",
             pageUrl,
             "Failed request: " \o req.method \o " " \o req.url
                 \o " (" \o ToString(req.status) \o ")",
             timestamp)

\* detectNetworkFailures(context)
DetectNetworkFailures(context, ids, stamps, base) ==
    LET failedRequests == SelectSeq(context.networkRequests, LAMBDA req : req.failed)
    IN  [k \in 1..Len(failedRequests) |->
            NetworkIssue(failedRequests[k], context.url, ids[base + k],
                         stamps[base + k])]

\* the slow-load issue of detectPerformanceIssues
SlowLoadIssue(perf, pageUrl, id, timestamp) ==
    NewIssue(id, IF perf.loadTime > Ms(10000) THEN "HIGH" ELSE "MEDIUM",
             "PERFORMANCE", pageUrl,
             "Slow page load: " \o ToString(MathRound(perf.loadTime))
                 \o "ms (threshold: 5000ms)",
             timestamp)

\* the poor-LCP issue of detectPerformanceIssues
PoorLcpIssue(perf, pageUrl, id, timestamp) ==
    NewIssue(id, IF perf.lcp.value > Ms(4000) THEN "HIGH" ELSE "MEDIUM",
             "PERFORMANCE", pageUrl,
             "Poor LCP: " \o ToString(MathRound(perf.lcp.value))
                 \o "ms (threshold: 2500ms)",
             timestamp)

\* detectPerformanceIssues with the thresholds 5000 and 2500 themselves on the
\* upper side
DetectPerformanceIssuesFromThreshold(context, ids, stamps, base) ==
    LET perf == context.performance.value
        slow == IF perf.loadTime >= Ms(5000)
                THEN << SlowLoadIssue(perf, context.url, ids[base + 1],
                                      stamps[base + 1]) >>
                ELSE <<>>
        next == base + Len(slow) + 1
    IN  IF perf.lcp.present /\ perf.lcp.value # 0 /\ perf.lcp.value >= Ms(2500)
        THEN Append(slow, PoorLcpIssue(perf, context.url, ids[next], stamps[next]))
        ELSE slow

\* detectPerformanceIssues(context), called with a snapshot present; an lcp of
\* 0 is falsy
DetectPerformanceIssues(context, ids, stamps, base) ==
    LET perf == context.performance.value
        slow == IF perf.loadTime > Ms(5000)
                THEN << SlowLoadIssue(perf, context.url, ids[base + 1],
                                      stamps[base + 1]) >>
                ELSE <<>>
        next == base + Len(slow) + 1
    IN  IF perf.lcp.present /\ perf.lcp.value # 0 /\ perf.lcp.value > Ms(2500)
        THEN Append(slow, PoorLcpIssue(perf, context.url, ids[next], stamps[next]))
        ELSE slow

\* create404Issue writing the creation time into the message
Create404IssueStamped(context, id, timestamp) ==
    NewIssue(id, "MEDIUM", "BROKEN_LINK", context.url,
             "Page returned " \o ToString(context.httpStatus) \o " at " \o timestamp,
             timestamp)

\* create404Issue rating server errors HIGH
Create404IssueByStatus(context, id, timestamp) ==
    NewIssue(id, IF context.httpStatus >= 500 THEN "HIGH" ELSE "MEDIUM",
             "BROKEN_LINK", context.url,
             "Page returned " \o ToString(context.httpStatus), timestamp)

\* create404Issue(context)
Create404Issue(context, id, timestamp) ==
    NewIssue(id, "MEDIUM", "BROKEN_LINK", context.url,
             "Page returned " \o ToString(context.httpStatus), timestamp)

\* detectIssues with the network issues put before the console issues
DetectIssuesNetworkFirst(context, ids, stamps) ==
    LET network == DetectNetworkFailures(context, ids, stamps, 0)
        console == DetectConsoleErrors(context, ids, stamps, Len(network))
        early   == network \o console
        perf    == IF context.performance.present
                   THEN DetectPerformanceIssues(context, ids, stamps, Len(early))
                   ELSE <<>>
        issues  == early \o perf
    IN  IF context.httpStatus >= 400
        THEN Append(issues, Create404Issue(context, ids[Len(issues) + 1],
                                           stamps[Len(issues) + 1]))
        ELSE issues

\* detectIssues(context) on a bundle with all its fields; ids and stamps are
\* what generateId and formatTimestamp return, call after call
DetectIssuesIn(context, ids, stamps) ==
    LET console == DetectConsoleErrors(context, ids, stamps, 0)
        network == DetectNetworkFailures(context, ids, stamps, Len(console))
        early   == console \o network
        perf    == IF context.performance.present
                   THEN DetectPerformanceIssues(context, ids, stamps, Len(early))
                   ELSE <<>>
        issues  == early \o perf
    IN  IF context.httpStatus >= 400
        THEN Append(issues, Create404Issue(context, ids[Len(issues) + 1],
                                           stamps[Len(issues) + 1]))
        ELSE issues

\* console entries a page can log
LogEntry(type, message, source) ==
    [type |-> type, message |-> message, source |-> source, stackTrace |-> Absent]

ConsoleEntries ==
    { LogEntry("error", "Uncaught TypeError: x is undefined",
               Present("http://s/app.js:10:5")),
      LogEntry("error", "Cannot find module 'lodash'", Absent),
      LogEntry("error", "JavaScript heap out of memory", Present("")),
      LogEntry("error", "Failed to fetch resource at http://s/a.js:3:7",
               Present("http://s/")),
      LogEntry("error", "Request Timeout", Absent),
      LogEntry("warn", "Deprecated API used", Absent) }

\* network records a page can collect
NetworkRecord(status, failed) ==
    [url |-> "http://s/api", method |-> "GET", status |-> status,
     failed |-> failed]

NetworkEntries ==
    { NetworkRecord(404, TRUE), NetworkRecord(500, TRUE),
      NetworkRecord(200, FALSE), NetworkRecord(404, FALSE) }

\* performance snapshots: load times and largest-contentful-paint times around
\* the thresholds, the latter optional
LoadTimes ==
    { Ms(4000), Ms(5000), Ms(5000) + 4, Ms(5000) + 5, Ms(6000), Ms(10000),
      Ms(10000) + 1, Ms(12000) }

LcpTimes ==
    { Absent, Present(0), Present(Ms(2500)), Present(Ms(2500) + 1),
      Present(Ms(4000)), Present(Ms(4000) + 5), Present(Ms(4500)) }

Snapshots ==
    { Absent } \cup { Present([loadTime |-> t, lcp |-> l]) :
                          t \in LoadTimes, l \in LcpTimes }

HttpStatuses == { 0, 200, 399, 400, 404, 500 }

Bundle(logs, requests, performance, httpStatus) ==
    [url |-> "http://s/", consoleLogs |-> logs, networkRequests |-> requests,
     performance |-> performance, httpStatus |-> httpStatus]

\* Bundles that vary one kind of signal at a time, and bundles that mix a few
\* signals of every kind
Bundles ==
    { Bundle(logs, <<>>, Absent, 200) : logs \in SeqsUpTo(ConsoleEntries, MaxLogs) }
    \cup { Bundle(<<>>, requests, Absent, 200) :
              requests \in SeqsUpTo(NetworkEntries, MaxRequests) }
    \cup { Bundle(<<>>, <<>>, performance, httpStatus) :
              performance \in Snapshots, httpStatus \in HttpStatuses }
    \cup { Bundle(logs, requests, performance, httpStatus) :
              logs \in SeqsUpTo(ConsoleEntries, 1),
              requests \in SeqsUpTo(NetworkEntries, 1),
              performance \in { Absent,
                                Present([loadTime |-> Ms(12000),
                                         lcp |-> Present(Ms(4500))]) },
              httpStatus \in { 0, 200, 404 } }

\* generateId: the identifiers one call of detectIssues can draw for up to n
\* issues
RandomSeeds == { "a3f1", "9c0e" }
IdStreams(n) == { [k \in 1..n |-> seed \o ToString(k)] : seed \in RandomSeeds }

\* formatTimestamp: the clock readings one call can see when the clock stood at
\* Times[from] before it: the clock stays where it is during the call, or it
\* moves on after the first issue; it never goes back
Times == << "2026-01-01T00:00:00.000Z", "2026-01-01T00:00:00.001Z" >>
Clocks(n, from) ==
    { [k \in 1..n |-> Times[t]] : t \in from..Len(Times) }
        \cup { [k \in 1..n |-> IF k = 1 \/ from = Len(Times) THEN Times[from]
                                ELSE Times[from + 1]] }

\* where the clock stood at the last issue built so far
LastReading ==
    IF results = <<>> \/ results[Len(results)] = <<>> THEN 1
    ELSE LET last == results[Len(results)]
         IN  CHOOSE t \in 1..Len(Times) : Times[t] = last[Len(last)].timestamp

DetectInit ==
    /\ IdleScanner
    /\ input \in { [kind |-> "bundle", bundle |-> b] : b \in Bundles }
    /\ results = <<>>

\* detectIssues(input.bundle), called a first and a second time
CallDetectIssues ==
    /\ input.kind = "bundle"
    /\ Len(results) <= 1
    /\ LET n == Len(input.bundle.consoleLogs)
                    + Len(input.bundle.networkRequests) + 3
       IN  \E ids \in IdStreams(n), stamps \in Clocks(n, LastReading) :
              results' = Append(results, DetectIssuesIn(input.bundle, ids, stamps))
    /\ UNCHANGED << input, pc, config, browser, page, visitedUrls, urlQueue,
                    pagesScanned, issuesFound, criticalIssues, url, runId, output,
                    error, failedAt, closeCalls >>

DetectSpec == DetectInit /\ [][CallDetectIssues]_vars

(* ------------------------------------------------------------------ *)
(* The scan command: reporting options, and two runs on one site       *)
(* ------------------------------------------------------------------ *)

\* criticalOnly, minSeverity, maxDepth and parallelPages as a caller may set
\* them; the constructor's defaults are false, none, 3 and 1
OptionValues ==
    { [criticalOnly |-> c, minSeverity |-> m, maxDepth |-> d, parallelPages |-> p] :
        c \in BOOLEAN, m \in { Absent, Present("HIGH") }, d \in { 3, 1 },
        p \in { 1, 2 } }

DefaultOptions ==
    [criticalOnly |-> FALSE, minSeverity |-> Absent, maxDepth |-> 3,
     parallelPages |-> 1]

\* the constructor's configuration with the four options in it
ConstructorWithOptions(c, o) == Constructor(c) @@ o

\* the configurations the scan command builds: maxPages always given, no include
\* patterns
CliConfigs ==
    { c \in CallerConfigs :
        c.hasMaxPages /\ c.maxPages = MaxPagesCfg /\ c.filter.include = <<>> }

\* What one page of a site does at every visit: the links it holds, the
\* severities of the issues found on it, and the step of the visit that rejects
\* ("none": no step does; "newPage": browser.newPage() does; "closePage":
\* page.close() does)
Behaviour(kind, u) ==
    CASE kind = "chain" ->
            [links |-> << NextPage(u) >>, sevs |-> << "CRITICAL", "MEDIUM", "MEDIUM" >>,
             failsAt |-> "none"]
      [] kind = "hub" ->
            [links |-> AllPagesSeq \o << BadLink, ExtUrl >> \o AllPagesSeq,
             sevs |-> << "HIGH", "CRITICAL", "MEDIUM", "CRITICAL" >>,
             failsAt |-> "none"]
      [] kind = "broken" ->
            [links |-> AllPagesSeq \o << BadLink, ExtUrl >> \o AllPagesSeq,
             sevs |-> << "CRITICAL", "MEDIUM", "MEDIUM" >>,
             failsAt |-> IF u = BaseUrl THEN "none" ELSE "goto"]
      [] kind = "flaky" ->
            [links |-> << NextPage(u) >>, sevs |-> <<>>,
             failsAt |-> IF u = BaseUrl THEN "none" ELSE "links"]
      [] kind = "crash" ->
            [links |-> << NextPage(u) >>, sevs |-> << "CRITICAL", "MEDIUM", "MEDIUM" >>,
             failsAt |-> IF u = BaseUrl THEN "none" ELSE "closePage"]
      [] kind = "nopage" ->
            [links |-> << NextPage(u) >>, sevs |-> << "CRITICAL", "MEDIUM", "MEDIUM" >>,
             failsAt |-> IF u = BaseUrl THEN "none" ELSE "newPage"]

SiteKinds == { "chain", "hub", "broken", "flaky", "crash", "nopage" }

Sites == { [u \in SitePages |-> Behaviour(kind, u)] : kind \in SiteKinds }

\* A scanner built by the scan command with the default options, the site it is
\* run against, the identifier generateId draws, and the options of a second run
OptionsInit ==
    /\ NewScanner
    /\ \E c \in CliConfigs : config = ConstructorWithOptions(c, DefaultOptions)
    /\ input \in { [kind |-> "site", site |-> s, rid |-> r, other |-> o] :
                      s \in Sites, r \in RunIds, o \in OptionValues }
    /\ results = <<>>

\* The browser and the site answer a step as the site in input says: launch
\* resolves, a step of a visit rejects exactly where the page's behaviour
\* says, the link evaluation returns the page's links and its bundle gives the
\* page's issues, browser.close() resolves
SiteScript ==
    LET here == input.site[url] IN
    /\ pc = "idle" => runId' = input.rid
    /\ pc = "launch" => pc' = "loop"
    /\ pc = "newPage" => ((pc' = "finally") <=> (here.failsAt = "newPage"))
    /\ pc \in TrySteps => ((failedAt' = pc) <=> (here.failsAt = pc))
    /\ (pc = "links" /\ here.failsAt # "links") =>
          /\ urlQueue' = AdmitLinks(urlQueue, visitedUrls, here.links)
          /\ output' = ReportPage(output, url, DetectIssues(url, here.sevs))
    /\ pc = "closePage" => ((pc' = "finally") <=> (here.failsAt = "closePage"))
    /\ pc = "finally" => error' = error

\* After the run has ended, a new Scanner is built with the same configuration
\* but the other options, and scan() is called on it; what the first run emitted
\* and visited is kept
RunAgain ==
    /\ input.kind = "site"
    /\ pc \in { "returned", "rejected" }
    /\ results = <<>>
    /\ results' = << [output |-> output, visited |-> visitedUrls, error |-> error] >>
    /\ config' = [k \in DOMAIN config |->
                    IF k \in DOMAIN input.other THEN input.other[k] ELSE config[k]]
    /\ pc' = "idle"
    /\ browser' = "null"
    /\ page' = "none"
    /\ visitedUrls' = {}
    /\ urlQueue' = <<>>
    /\ pagesScanned' = 0
    /\ issuesFound' = 0
    /\ criticalIssues' = 0
    /\ url' = BaseUrl
    /\ runId' = "run-a"
    /\ output' = <<>>
    /\ error' = "none"
    /\ failedAt' = "none"
    /\ closeCalls' = 0
    /\ UNCHANGED input

OptionsNext == (Next /\ SiteScript) \/ RunAgain

OptionsSpec == OptionsInit /\ [][OptionsNext]_vars

\* onOutput of the scan command: the lines written to the JSONL stream, one per
\* output handed over
StreamLines(out) == [k \in 1..Len(out) |-> [json |-> out[k]]]

\* onOutput of the scan command: the console feedback, in order: a line per
\* CRITICAL issue, per progress output and for the completion
ConsoleLines(out) ==
    LET shown == SelectSeq(out, LAMBDA o :
                     \/ (o.type = "issue" /\ o.severity = "CRITICAL")
                     \/ o.type = "progress"
                     \/ o.type = "scan_complete")
    IN  [k \in 1..Len(shown) |->
            IF shown[k].type = "issue"
            THEN [feedback |-> "CRITICAL", issue |-> shown[k]]
            ELSE [feedback |-> shown[k].type]]

(* ------------------------------------------------------------------ *)
(* Resource blocking: the route handler of scanPage                    *)
(* ------------------------------------------------------------------ *)

\* new URL(text).origin of an absolute http URL: the text up to the first "/"
\* after "://"
UrlOrigin(text) ==
    LET scheme == CHOOSE i \in 1..(Len(text) - 2) :
                      /\ SubSeq(text, i, i + 2) = "://"
                      /\ \A j \in 1..(i - 1) : SubSeq(text, j, j + 2) # "://"
        slashes == { i \in (scheme + 3)..Len(text) : SubSeq(text, i, i) = "/" }
        end == IF slashes = {} THEN Len(text)
               ELSE (CHOOSE i \in slashes : \A j \in slashes : i <= j) - 1
    IN  SubSeq(text, 1, end)

\* allowedDomains.some(domain => requestUrl.includes(domain))
RECURSIVE SomeIncluded(_, _)
SomeIncluded(domains, requestUrl) ==
    IF domains = <<>> THEN FALSE
    ELSE IF Includes(requestUrl, Head(domains)) THEN TRUE
    ELSE SomeIncluded(Tail(domains), requestUrl)

\* blockedResourceTypes.includes(resourceType)
RECURSIVE ArrayIncludes(_, _)
ArrayIncludes(array, element) ==
    IF array = <<>> THEN FALSE
    ELSE IF Head(array) = element THEN TRUE
    ELSE ArrayIncludes(Tail(array), element)

\* the route handler with a whitelisted external request continued at once
RouteHandlerAllowedContinues(cfg, request) ==
    LET pageOrigin == UrlOrigin(cfg.baseUrl)
        requestOrigin == UrlOrigin(request.url)
    IN  IF cfg.blockExternalResources /\ requestOrigin # pageOrigin
        THEN IF cfg.allowedDomains.present
                  /\ SomeIncluded(cfg.allowedDomains.value, request.url)
             THEN << "continue" >>
             ELSE << "abort" >>
        ELSE IF cfg.blockedResourceTypes.present
                  /\ ArrayIncludes(cfg.blockedResourceTypes.value, request.resourceType)
             THEN << "abort" >>
             ELSE << "continue" >>

\* The handler page.route installs, for one request: the calls it makes on the
\* route, in order
RouteHandler(cfg, request) ==
    LET pageOrigin == UrlOrigin(cfg.baseUrl)
        requestOrigin == UrlOrigin(request.url)
        isAllowed == cfg.allowedDomains.present
                        /\ SomeIncluded(cfg.allowedDomains.value, request.url)
    IN  IF cfg.blockExternalResources /\ requestOrigin # pageOrigin /\ ~isAllowed
        THEN << "abort" >>
        ELSE IF cfg.blockedResourceTypes.present
                  /\ ArrayIncludes(cfg.blockedResourceTypes.value, request.resourceType)
             THEN << "abort" >>
             ELSE << "continue" >>

\* the requests a page makes: of the site, of a host whose name begins like the
\* site's, of a CDN, and of a third host with the CDN's name in its query
RequestUrls ==
    { "http://s/a.js", "http://s.evil/a.js", "http://cdn.x/lib.js",
      "http://ads.y/?u=cdn.x" }

ResourceTypes == { "image", "script" }

Requests == { [url |-> u, resourceType |-> t] : u \in RequestUrls, t \in ResourceTypes }

\* the blocking policies under which scanPage installs the handler:
\* blockExternalResources set or blockedResourceTypes given
BlockingConfigs ==
    { cfg \in [ baseUrl : { "http://s/" },
                blockExternalResources : BOOLEAN,
                allowedDomains : { Absent, Present(<<>>), Present(<< "cdn.x" >>),
                                   Present(<< "zz", "cdn.x" >>) },
                blockedResourceTypes : { Absent, Present(<<>>), Present(<< "image" >>),
                                         Present(<< "font", "image" >>) } ] :
        cfg.blockExternalResources \/ cfg.blockedResourceTypes.present }

RouteInputs ==
    { [kind |-> "route", config |-> cfg, requests |-> rs] :
        cfg \in BlockingConfigs,
        rs \in SeqsUpTo(Requests, MaxRequests) \ { <<>> } }

RouteInit ==
    /\ IdleScanner
    /\ input \in RouteInputs
    /\ results = <<>>

\* the page makes its next request and the handler decides it
HandleRequest ==
    /\ input.kind = "route"
    /\ Len(results) < Len(input.requests)
    /\ results' = Append(results,
                         RouteHandler(input.config, input.requests[Len(results) + 1]))
    /\ UNCHANGED << input, pc, config, browser, page, visitedUrls, urlQueue,
                    pagesScanned, issuesFound, criticalIssues, url, runId, output,
                    error, failedAt, closeCalls >>

RouteSpec == RouteInit /\ [][HandleRequest]_vars

(* ------------------------------------------------------------------ *)
(* A second call of scan() on the same Scanner                         *)
(* ------------------------------------------------------------------ *)

\* the callers modelled for it: with and without a page limit, no include
\* patterns
RescanConfigs ==
    { c \in CallerConfigs : c.maxPages = MaxPagesCfg /\ c.filter.include = <<>> }

RescanInit ==
    /\ NewScanner
    /\ config \in { Constructor(c) : c \in RescanConfigs }
    /\ input = [kind |-> "rescan"]
    /\ results = <<>>

\* After scan() has returned or rejected the caller calls it again on the same
\* instance: the fields of the Scanner are what the first call left, the call has
\* no exception pending; results keeps what the first call counted
ScanAgain ==
    /\ input.kind = "rescan"
    /\ pc \in { "returned", "rejected" }
    /\ results = <<>>
    /\ results' = << [pagesScanned |-> pagesScanned, issuesFound |-> issuesFound,
                      visited |-> visitedUrls] >>
    /\ pc' = "idle"
    /\ error' = "none"
    /\ failedAt' = "none"
    /\ closeCalls' = 0
    /\ UNCHANGED << input, config, browser, page, visitedUrls, urlQueue, pagesScanned,
                    issuesFound, criticalIssues, url, runId, output >>

RescanNext == Next \/ ScanAgain

RescanSpec == RescanInit /\ [][RescanNext]_vars

(* ------------------------------------------------------------------ *)
(* A base URL that the caller's own patterns reject                    *)
(* ------------------------------------------------------------------ *)

\* filters that reject the base URL: it matches an exclude pattern, or none of
\* the include patterns
BaseRejectingFilters ==
    { [include |-> <<>>, exclude |-> << { BaseUrl } >>],
      [include |-> << SitePages \ { BaseUrl } >>, exclude |-> <<>>] }

RejectedBaseInit ==
    /\ NewScanner
    /\ config \in { Constructor([c EXCEPT !.filter = f]) :
                      c \in CliConfigs, f \in BaseRejectingFilters }
    /\ input = NoInput
    /\ results = <<>>

RejectedBaseSpec == RejectedBaseInit /\ [][Next]_vars

(* ------------------------------------------------------------------ *)
(* One page visit with its console and response listeners              *)
(* ------------------------------------------------------------------ *)

\* what the page of the visit answers and which listeners scanPage installs
VisitInputs ==
    { [kind |-> "visit", captureConsoleLogs |-> c, captureNetworkRequests |-> n,
       httpStatus |-> h, performance |-> p] :
        c \in BOOLEAN, n \in BOOLEAN, h \in { 200, 404 },
        p \in { Present([loadTime |-> Ms(1200), lcp |-> Absent]) } }

\* the console messages and the responses the page may produce during the visit
ListenedLogs ==
    { LogEntry("error", "Uncaught TypeError: x is undefined",
               Present("http://s/app.js:10:5")),
      LogEntry("warn", "Deprecated API used", Absent) }

ListenedResponses == { NetworkRecord(500, TRUE), NetworkRecord(200, FALSE) }

\* the 'complete' page output with the collectors it carries
PageCompleteWith(u, httpStatus, issues, logs, requests, performance) ==
    [type |-> "page", url |-> u, status |-> "complete", httpStatus |-> httpStatus,
     issues |-> issues,
     consoleLogs |-> IF input.captureConsoleLogs THEN Present(logs) ELSE Absent,
     networkRequests |-> IF input.captureNetworkRequests THEN Present(requests)
                         ELSE Absent,
     performance |-> performance]

\* results holds the two collectors of the visit, consoleLogs and networkRequests
VisitInit ==
    /\ IdleScanner
    /\ input \in VisitInputs
    /\ results = [consoleLogs |-> <<>>, networkRequests |-> <<>>]

\* scan() up to the first await of the visit of the base URL: scan_start, the
\* launch, the loop's first iteration, newPage, the 'scanning' output, the
\* listeners; page.goto is pending
BeginVisit ==
    /\ input.kind = "visit"
    /\ pc = "idle"
    /\ \E rid \in RunIds :
          /\ runId' = rid
          /\ output' = << ScanStart(rid), PageScanning(BaseUrl) >>
    /\ browser' = "open"
    /\ page' = "open"
    /\ visitedUrls' = { BaseUrl }
    /\ url' = BaseUrl
    /\ pc' = "goto"
    /\ UNCHANGED << input, results, config, urlQueue, pagesScanned, issuesFound,
                    criticalIssues, error, failedAt, closeCalls >>

\* the awaits of a visit: while one is pending, callbacks may run
VisitAwaits == { "goto", "settle", "performance", "screenshots", "links", "closePage" }

\* page.goto, the settle wait, collectPerformance or captureScreenshots resolves
AwaitResolves ==
    /\ input.kind = "visit"
    /\ pc \in { "goto", "settle", "performance", "screenshots" }
    /\ pc' = CASE pc = "goto" -> "settle"
               [] pc = "settle" -> AfterSettle
               [] pc = "performance" -> AfterPerformance
               [] pc = "screenshots" -> "links"
    /\ UNCHANGED << input, results, config, browser, page, visitedUrls, urlQueue,
                    pagesScanned, issuesFound, criticalIssues, url, runId, output,
                    error, failedAt, closeCalls >>

\* the 'console' listener runs: consoleLogs.push(captureConsoleLog(msg))
ConsoleFires ==
    /\ input.kind = "visit"
    /\ pc \in VisitAwaits
    /\ input.captureConsoleLogs
    /\ Len(results.consoleLogs) < MaxLogs
    /\ \E entry \in ListenedLogs :
          results' = [results EXCEPT !.consoleLogs = Append(@, entry)]
    /\ UNCHANGED << input, pc, config, browser, page, visitedUrls, urlQueue,
                    pagesScanned, issuesFound, criticalIssues, url, runId, output,
                    error, failedAt, closeCalls >>

\* the 'response' listener has run to its end:
\* networkRequests.push(await captureNetworkRequest(response, duration))
ResponseFires ==
    /\ input.kind = "visit"
    /\ pc \in VisitAwaits
    /\ input.captureNetworkRequests
    /\ Len(results.networkRequests) < MaxRequests
    /\ \E record \in ListenedResponses :
          results' = [results EXCEPT !.networkRequests = Append(@, record)]
    /\ UNCHANGED << input, pc, config, browser, page, visitedUrls, urlQueue,
                    pagesScanned, issuesFound, criticalIssues, url, runId, output,
                    error, failedAt, closeCalls >>

\* DetectAndEmit with detectIssues called before a console message that the
\* 'complete' output then carries
DetectAndEmitStale ==
    /\ input.kind = "visit"
    /\ pc = "links"
    /\ LET logs == results.consoleLogs
           seen == IF logs = <<>> THEN logs ELSE SubSeq(logs, 1, Len(logs) - 1)
           requests == results.networkRequests
           n == Len(logs) + Len(requests) + 3
           context == Bundle(seen, requests, input.performance, input.httpStatus)
       IN  \E issues \in { DetectIssuesIn(context, ids, stamps) :
                               ids \in IdStreams(n), stamps \in Clocks(n, 1) } :
              /\ issuesFound' = issuesFound + Len(issues)
              /\ criticalIssues' = criticalIssues + Len(FilterCritical(issues, TRUE))
              /\ output' = output \o FilterCritical(issues, TRUE)
                    \o << PageCompleteWith(url, input.httpStatus, issues, logs,
                                           requests, input.performance) >>
                    \o FilterCritical(issues, FALSE)
    /\ pc' = "closePage"
    /\ UNCHANGED << input, results, config, browser, page, visitedUrls, urlQueue,
                    pagesScanned, url, runId, error, failedAt, closeCalls >>

\* discoverLinks returns (the page has no links) and scanPage runs on without an
\* await: detectIssues on the collectors, the counters, the outputs
DetectAndEmit ==
    /\ input.kind = "visit"
    /\ pc = "links"
    /\ LET logs == results.consoleLogs
           requests == results.networkRequests
           n == Len(logs) + Len(requests) + 3
           context == Bundle(logs, requests, input.performance, input.httpStatus)
       IN  \E issues \in { DetectIssuesIn(context, ids, stamps) :
                               ids \in IdStreams(n), stamps \in Clocks(n, 1) } :
              /\ issuesFound' = issuesFound + Len(issues)
              /\ criticalIssues' = criticalIssues + Len(FilterCritical(issues, TRUE))
              /\ output' = output \o FilterCritical(issues, TRUE)
                    \o << PageCompleteWith(url, input.httpStatus, issues, logs,
                                           requests, input.performance) >>
                    \o FilterCritical(issues, FALSE)
    /\ pc' = "closePage"
    /\ UNCHANGED << input, results, config, browser, page, visitedUrls, urlQueue,
                    pagesScanned, url, runId, error, failedAt, closeCalls >>

\* page.close() resolves and scan() counts the page
VisitCloses ==
    /\ input.kind = "visit"
    /\ pc = "closePage"
    /\ page' = "closed"
    /\ pagesScanned' = pagesScanned + 1
    /\ output' = Emit(output, Progress(pagesScanned + 1,
                                       Cardinality(visitedUrls) + Len(urlQueue),
                                       issuesFound, criticalIssues))
    /\ pc' = "loop"
    /\ UNCHANGED << input, results, config, browser, visitedUrls, urlQueue,
                    issuesFound, criticalIssues, url, runId, error, failedAt,
                    closeCalls >>

VisitNext ==
    \/ BeginVisit
    \/ AwaitResolves
    \/ ConsoleFires
    \/ ResponseFires
    \/ DetectAndEmit
    \/ VisitCloses

VisitSpec == VisitInit /\ [][VisitNext]_vars

(* ------------------------------------------------------------------ *)
(* Properties                                                          *)
(* ------------------------------------------------------------------ *)

Idx == 1..Len(output)

IsPage(e, u, statuses) == e.type = "page" /\ e.url = u /\ e.status \in statuses

Final == { "returned", "rejected" }

\* C1: no URL is visited twice in a run: for every URL the outputs hold at most
\* one 'scanning' page output and at most one terminal ('complete' or 'failed')
\* page output.
C1_NoUrlVisitedTwice ==
    \A i, j \in Idx :
        (i # j /\ output[i].type = "page" /\ output[j].type = "page"
              /\ output[i].url = output[j].url)
        => /\ ~(output[i].status = "scanning" /\ output[j].status = "scanning")
           /\ ~(output[i].status # "scanning" /\ output[j].status # "scanning")

\* C1 witness: a finished run that visited every page of the site, one of them
\* failing, while pages kept linking back to visited pages
C1_Witness ==
    /\ pc = "returned"
    /\ pagesScanned = NumUrls
    /\ \E i \in Idx : output[i].type = "page" /\ output[i].status = "failed"
    /\ \E i \in Idx : output[i].type = "page" /\ output[i].status = "complete"

NoDuplicates(q) == \A i, j \in 1..Len(q) : i # j => q[i] # q[j]

\* C2: link discovery never queues a URL that is visited or queued already: after
\* every step the queue holds no duplicate and no visited URL, and the visited set
\* has only grown.
C2_FrontierDeduplicated ==
    [][ /\ visitedUrls \subseteq visitedUrls'
        /\ NoDuplicates(urlQueue')
        /\ \A i \in 1..Len(urlQueue') : urlQueue'[i] \notin visitedUrls' ]_vars

\* C2 witness: the first page returned every page of the site twice, its own URL
\* included, and each unvisited page was queued once
C2_Witness ==
    /\ pc = "closePage"
    /\ failedAt = "none"
    /\ visitedUrls = {BaseUrl}
    /\ Len(urlQueue) = NumUrls - 1

\* C3 as claimed: pagesScanned never exceeds the configured maxPages, 0 included.
C3_BoundRespected == pagesScanned <= config.maxPages

\* C4: with progressive and prioritizeCritical enabled, every issue of a completed
\* page is emitted; a CRITICAL one between the page's 'scanning' and 'complete'
\* outputs, any other after 'complete'; and two issues of the same group appear
\* in the order of the page's issue list.
C4_CriticalBeforeComplete ==
    (config.progressive /\ config.prioritizeCritical) =>
    \A k \in Idx :
        (output[k].type = "page" /\ output[k].status = "complete") =>
        LET u == output[k].url
            issues == output[k].issues
            IsCrit(i) == issues[i].severity = "CRITICAL"
            Pos(i) == { n \in Idx : output[n] = issues[i] }
        IN  \A i \in 1..Len(issues) :
              /\ Cardinality(Pos(i)) = 1
              /\ \A n \in Pos(i) :
                    /\ IsCrit(i) =>
                          /\ n < k
                          /\ \E s \in 1..(n - 1) : IsPage(output[s], u, {"scanning"})
                    /\ ~IsCrit(i) => n > k
                    /\ \A j \in 1..Len(issues) :
                          (i < j /\ IsCrit(i) = IsCrit(j))
                          => \A m \in Pos(j) : n < m

\* C4 witness: a completed page with two CRITICAL issues and other issues
\* between them, under both flags
C4_Witness ==
    /\ config.progressive /\ config.prioritizeCritical
    /\ \E k \in Idx :
        /\ output[k].type = "page" /\ output[k].status = "complete"
        /\ Len(output[k].issues) = 4
        /\ k + 2 <= Len(output)

\* C5 as claimed: a visit whose page.goto rejected has exactly one 'failed' page
\* output and no 'complete' one, and the run does not end while the queue is
\* non-empty and fewer than maxPages pages are counted.
C5_NavigationFailureContained ==
    failedAt = "goto" =>
        /\ Cardinality({ i \in Idx : IsPage(output[i], url, {"failed"}) }) = 1
        /\ \A i \in Idx : ~IsPage(output[i], url, {"complete"})
        /\ pc \in {"finally"} \cup Final
              => (Len(urlQueue) = 0 \/ pagesScanned >= config.maxPages)

\* C6 as claimed: no error raised during a page visit leaves the loop; the try
\* block of scan() is left with an exception only when the launch failed.
C6_VisitErrorsContained ==
    pc = "finally" => error \in {"none", "launch"}

\* C7: when the launch fails, scan() rejects, nothing but scan_start was emitted,
\* no page was visited or counted and no page context was opened.
C7_LaunchFailureAborts ==
    error = "launch" =>
        /\ pc \in {"finally", "rejected"}
        /\ output = << ScanStart(runId) >>
        /\ pagesScanned = 0
        /\ visitedUrls = {}
        /\ page = "none"

\* C7 witness: scan() has rejected with the launch failure
C7_Witness == pc = "rejected" /\ error = "launch"

\* C8: a launched browser is closed exactly once on every exit path of scan()
\* (never when the launch failed), and after the close no step of the run is left
\* that could open a page context.
C8_BrowserClosedOnce ==
    /\ closeCalls <= 1
    /\ pc \in Final => closeCalls = (IF error = "launch" THEN 0 ELSE 1)
    /\ closeCalls > 0 => pc \in Final

\* C8 witness: scan() has rejected with an exception that left the loop, and the
\* browser was closed
C8_Witness ==
    /\ pc = "rejected"
    /\ error \in {"newPage", "pageClose"}
    /\ closeCalls = 1
    /\ browser = "null"

\* C9: every run terminates, and with a positive maxPages scanPage is called at
\* most maxPages times.
C9_Terminates ==
    /\ <>(pc \in Final)
    /\ [](config.maxPages > 0 => Cardinality(visitedUrls) <= config.maxPages)

\* C9 witness: the loop was left at the page limit while links were still queued
C9_Witness ==
    /\ pc = "returned"
    /\ pagesScanned = config.maxPages
    /\ Len(urlQueue) > 0

\* C10: scan_start is the first output and the only one of its type; scan_complete
\* appears only as the last output, carries the run's runId, pagesScanned and
\* issuesFound, and is present once the loop was left by its condition.
C10_StartFirstCompleteLast ==
    /\ output # <<>> => output[1] = ScanStart(runId)
    /\ \A i \in Idx : output[i].type = "scan_start" => i = 1
    /\ \A i \in Idx :
          output[i].type = "scan_complete"
          => /\ i = Len(output)
             /\ output[i].runId = output[1].runId
             /\ output[i].totalPages = pagesScanned
             /\ output[i].issuesFound = issuesFound
    /\ (pc = "returned" \/ (pc = "finally" /\ error = "none"))
          => /\ output # <<>>
             /\ output[Len(output)].type = "scan_complete"

\* C10 witness: a run that returned at the page limit with issues counted and
\* links still queued
C10_Witness ==
    /\ pc = "returned"
    /\ pagesScanned = 2
    /\ issuesFound > 0
    /\ Len(urlQueue) > 0
    /\ output[Len(output)].type = "scan_complete"

\* C11: after the admission loop the queue is the old queue followed by exactly
\* the links that have the base URL's origin, that shouldIncludeUrl accepts and
\* that were neither visited nor queued, each once and in the order of their
\* first occurrence; every other link leaves the queue as it was.
C11_AdmissionRule ==
    (input.kind = "admitLinks" /\ results # <<>>) =>
    LET q == input.queue
        r == results[1]
        added == SubSeq(r, Len(q) + 1, Len(r))
        Admissible(l) ==
            /\ l.valid
            /\ l.origin = config.baseUrl.origin
            /\ ShouldIncludeUrl(l, config.includePatterns, config.excludePatterns)
            /\ l \notin input.visited
            /\ l \notin Range(q)
        First(l) == CHOOSE i \in 1..Len(input.links) :
                        /\ input.links[i] = l
                        /\ \A j \in 1..(i - 1) : input.links[j] # l
    IN  /\ Len(r) >= Len(q)
        /\ SubSeq(r, 1, Len(q)) = q
        /\ \A l \in Links :
              l \in Range(added) <=> (l \in Range(input.links) /\ Admissible(l))
        /\ \A i, j \in 1..Len(added) :
              i < j => /\ added[i] # added[j]
                       /\ First(added[i]) < First(added[j])

\* C11 witness: of two links the first is a same-origin page the filter rejects,
\* the second is admitted behind a non-empty queue
C11_Witness ==
    /\ input.kind = "admitLinks" /\ results # <<>>
    /\ input.queue # <<>>
    /\ Len(input.links) = 2
    /\ input.links[1].valid /\ input.links[1].origin = config.baseUrl.origin
    /\ ~ShouldIncludeUrl(input.links[1], config.includePatterns, config.excludePatterns)
    /\ results[1] = Append(input.queue, input.links[2])

\* C12: shouldIncludeUrl returns false for a URL that some exclude pattern
\* matches, whatever the include patterns; otherwise it returns true exactly when
\* the include list is empty or some include pattern matches.
C12_ExcludeFirst ==
    (input.kind = "shouldIncludeUrl" /\ results # <<>>) =>
    LET excluded == \E i \in 1..Len(input.excludePatterns) :
                        MatchPatternText(input.url, input.excludePatterns[i])
        included == \E i \in 1..Len(input.includePatterns) :
                        MatchPatternText(input.url, input.includePatterns[i])
    IN  /\ excluded => results[1] = FALSE
        /\ ~excluded => (results[1] = (input.includePatterns = <<>> \/ included))

\* C12 witness: the exclude pattern */admin/* rejects a URL the include pattern *
\* admits
C12_Witness ==
    /\ input.kind = "shouldIncludeUrl" /\ results = << FALSE >>
    /\ input.url = "http://s/admin/x"
    /\ input.includePatterns = << "*" >>
    /\ input.excludePatterns = << "*/admin/*" >>

\* C13: the severity of a console-error message is CRITICAL when the message
\* holds 'uncaught', 'fatal' or 'critical' in any letter case, otherwise HIGH
\* when it holds 'error', 'exception' or 'failed', otherwise MEDIUM; it is never
\* LOW or INFO.
C13_SeverityTiers ==
    (input.kind = "message" /\ results # <<>>
        /\ results[1].call = "determineErrorSeverity") =>
    LET m == ToLowerCase(input.message)
        critical == \E k \in { "uncaught", "fatal", "critical" } : Includes(m, k)
        high == \E k \in { "error", "exception", "failed" } : Includes(m, k)
    IN  /\ results[1].value \in { "CRITICAL", "HIGH", "MEDIUM" }
        /\ critical => results[1].value = "CRITICAL"
        /\ (~critical /\ high) => results[1].value = "HIGH"
        /\ (~critical /\ ~high) => results[1].value = "MEDIUM"

\* C13 witness: a message with keywords of both tiers is rated CRITICAL
C13_Witness ==
    /\ input.kind = "message"
    /\ input.message = "Failed to fetch resource Uncaught TypeError: x is undefined"
    /\ results = << [call |-> "determineErrorSeverity", value |-> "CRITICAL"] >>

\* The fix rules as a table, top to bottom: whether the rule's predicate holds
\* of message m, and the description and confidence (in hundredths) it suggests.
\* The missing-dependency rule holds when a quoted module name can be extracted.
FixRuleTable(m) ==
    LET has(k) == Includes(ToLowerCase(m), k) IN
    <<
       [holds |-> Includes(m, "INSUFFICIENT_PATH"),
        description |-> "Replace next/link with next-intl Link",
        confidence |-> 95],
       [holds |-> ModuleMatchStarts(m) # {},
        description |-> IF ModuleMatchStarts(m) = {} THEN ""
                        ELSE "Install missing dependency: " \o ModuleMatch(m),
        confidence |-> 90],
       [holds |-> has("timeout") \/ has("etimedout"),
        description |-> "Increase timeout or check network connectivity",
        confidence |-> 70],
       [holds |-> has("hydration") \/ has("hydrate"),
        description |-> "Fix server/client rendering mismatch - ensure HTML matches between server and client",
        confidence |-> 85],
       [holds |-> has("cors") \/ has("access-control-allow-origin"),
        description |-> "Add CORS headers to API endpoint",
        confidence |-> 90],
       [holds |-> has("out of memory") \/ has("heap"),
        description |-> "Investigate memory leak - check for uncleaned listeners or large object retention",
        confidence |-> 80],
       [holds |-> has("undefined is not") \/ has("cannot read property"),
        description |-> "Add null/undefined checks before accessing properties",
        confidence |-> 85],
       [holds |-> has("rendered more hooks") \/ has("hooks can only be called"),
        description |-> "Fix hook call order - hooks must be called in the same order on every render",
        confidence |-> 90],
       [holds |-> has("expected") /\ has("indent"),
        description |-> "Fix indentation",
        confidence |-> 95],
       [holds |-> has("type") /\ has("not assignable"),
        description |-> "Fix TypeScript type mismatch",
        confidence |-> 75],
       [holds |-> has("prisma") /\ has("unique constraint"),
        description |-> "Handle duplicate entry - add upsert or unique check",
        confidence |-> 85],
       [holds |-> has("query") /\ has("loop"),
        description |-> "Fix N+1 query - use include/select to eager load relations",
        confidence |-> 90],
       [holds |-> has("env") \/ has("environment variable"),
        description |-> "Add missing environment variable to .env file",
        confidence |-> 85],
       [holds |-> has("econnrefused") \/ has("connection refused"),
        description |-> "Database not running - start database service",
        confidence |-> 90],
       [holds |-> has("jwt") \/ (has("token") /\ has("invalid")),
        description |-> "Token expired or invalid - refresh authentication",
        confidence |-> 80],
       [holds |-> has("429") \/ has("too many requests"),
        description |-> "Rate limit exceeded - implement exponential backoff",
        confidence |-> 85],
       [holds |-> has("cache") /\ has("stale"),
        description |-> "Clear cache or reduce TTL",
        confidence |-> 75],
       [holds |-> Includes(m, "404") /\ has("image"),
        description |-> "Upload missing image or update image path",
        confidence |-> 80],
       [holds |-> has("bundle") /\ has("size"),
        description |-> "Reduce bundle size - use code splitting and tree shaking",
        confidence |-> 70],
       [holds |-> has("key") /\ has("unique"),
        description |-> "Add unique key prop to list items",
        confidence |-> 95],
       [holds |-> has("deprecated"),
        description |-> "Update to new API - check migration guide",
        confidence |-> 75],
       [holds |-> has("maximum call stack") \/ has("infinite"),
        description |-> "Fix infinite recursion - add base case or loop condition",
        confidence |-> 90]
    >>

OfCategory(issues, category) ==
    SelectSeq(issues, LAMBDA issue : issue.category = category)

\* whether text starts with prefix
StartsWith(text, prefix) ==
    Len(prefix) <= Len(text) /\ SubSeq(text, 1, Len(prefix)) = prefix

\* the calls of detectIssues made so far on the bundle
Detected == IF input.kind = "bundle" THEN 1..Len(results) ELSE {}

\* C15: every issue detectIssues returns is auto-fixable exactly when it carries
\* a fix of confidence above 0.8; a fix of confidence 0.8 does not make it so, and
\* network, performance and broken-link issues carry no fix and are not
\* auto-fixable.
C15_AutoFixableAboveThreshold ==
    \A c \in Detected : \A k \in 1..Len(results[c]) :
        LET issue == results[c][k] IN
        /\ issue.autoFixable = (issue.fix.present /\ issue.fix.confidence > 80)
        /\ (issue.fix.present /\ issue.fix.confidence = 80) => ~issue.autoFixable
        /\ issue.category # "CONSOLE_ERROR" =>
              (~issue.fix.present /\ ~issue.autoFixable)

\* C15 witness: a fix of confidence 0.8 leaves its issue not auto-fixable, next to
\* an issue that a fix of confidence 0.9 makes auto-fixable
C15_Witness ==
    /\ input.kind = "bundle" /\ Len(results) >= 1 /\ Len(results[1]) = 2
    /\ results[1][1].fix.present /\ results[1][1].fix.confidence = 80
    /\ ~results[1][1].autoFixable
    /\ results[1][2].fix.present /\ results[1][2].fix.confidence = 90
    /\ results[1][2].autoFixable

\* C16: the NETWORK_FAILURE issues are one per failed network record, in record
\* order, MEDIUM when the record's status is 404 and HIGH otherwise; records that
\* did not fail give none.
C16_NetworkFailures ==
    \A c \in Detected :
        LET failedRecords == SelectSeq(input.bundle.networkRequests,
                                       LAMBDA req : req.failed)
            found == OfCategory(results[c], "NETWORK_FAILURE")
        IN  /\ Len(found) = Len(failedRecords)
            /\ \A k \in 1..Len(found) :
                  found[k].severity =
                      IF failedRecords[k].status = 404 THEN "MEDIUM" ELSE "HIGH"

\* C16 witness: a failed 404 rated MEDIUM, a failed 500 rated HIGH
C16_Witness ==
    /\ input.kind = "bundle" /\ Len(results) >= 1
    /\ input.bundle.networkRequests
          = << NetworkRecord(404, TRUE), NetworkRecord(500, TRUE) >>
    /\ Len(results[1]) = 2
    /\ results[1][1].category = "NETWORK_FAILURE" /\ results[1][1].severity = "MEDIUM"
    /\ results[1][2].category = "NETWORK_FAILURE" /\ results[1][2].severity = "HIGH"

\* C17: with a performance snapshot, there is a slow-load issue exactly when
\* loadTime > 5000 (HIGH exactly when > 10000) and a poor-LCP issue exactly when
\* lcp is present and > 2500 (HIGH exactly when > 4000), each on its own, so zero,
\* one or two PERFORMANCE issues; a load time of 12000 is named as 12000ms.
C17_PerformanceThresholds ==
    \A c \in Detected :
        input.bundle.performance.present =>
        LET perf  == input.bundle.performance.value
            found == OfCategory(results[c], "PERFORMANCE")
            slow  == { k \in 1..Len(found) :
                         StartsWith(found[k].message, "Slow page load: ") }
            poor  == { k \in 1..Len(found) :
                         StartsWith(found[k].message, "Poor LCP: ") }
        IN  /\ Len(found) <= 2
            /\ slow \cup poor = 1..Len(found)
            /\ Cardinality(slow) = (IF perf.loadTime > Ms(5000) THEN 1 ELSE 0)
            /\ Cardinality(poor) =
                  (IF perf.lcp.present /\ perf.lcp.value > Ms(2500) THEN 1 ELSE 0)
            /\ \A k \in slow :
                  /\ found[k].severity =
                        IF perf.loadTime > Ms(10000) THEN "HIGH" ELSE "MEDIUM"
                  /\ perf.loadTime = Ms(12000) => Includes(found[k].message, "12000ms")
            /\ \A k \in poor :
                  found[k].severity =
                      IF perf.lcp.value > Ms(4000) THEN "HIGH" ELSE "MEDIUM"

\* C17 witness: a load time of exactly 5000 gives no slow-load issue while an
\* LCP just above 2500 gives a MEDIUM poor-LCP issue
C17_Witness ==
    /\ input.kind = "bundle" /\ Len(results) >= 1
    /\ input.bundle.performance
          = Present([loadTime |-> Ms(5000), lcp |-> Present(Ms(2500) + 1)])
    /\ input.bundle.httpStatus = 200
    /\ Len(results[1]) = 1
    /\ results[1][1].category = "PERFORMANCE"
    /\ results[1][1].severity = "MEDIUM"
    /\ StartsWith(results[1][1].message, "Poor LCP: ")

\* the categories of a list of issues, in the list's order
Categories(issues) == [k \in 1..Len(issues) |-> issues[k].category]

\* n times the same category
Repeat(category, n) == [k \in 1..n |-> category]

\* C18: detectIssues returns one issue per console entry of type 'error' in log
\* order, then one per failed network record in record order, then the
\* performance issues (none without a snapshot), then the broken-link issue;
\* console entries of other types give no issue.
C18_FixedOrder ==
    \A c \in Detected :
        LET bundle  == input.bundle
            issues  == results[c]
            errors  == SelectSeq(bundle.consoleLogs, LAMBDA log : log.type = "error")
            failedRecords == SelectSeq(bundle.networkRequests, LAMBDA req : req.failed)
            perf    == OfCategory(issues, "PERFORMANCE")
            broken  == OfCategory(issues, "BROKEN_LINK")
        IN  /\ Categories(issues) =
                  Repeat("CONSOLE_ERROR", Len(errors))
                      \o Repeat("NETWORK_FAILURE", Len(failedRecords))
                      \o Repeat("PERFORMANCE", Len(perf))
                      \o Repeat("BROKEN_LINK", Len(broken))
            /\ \A k \in 1..Len(errors) : issues[k].message = errors[k].message
            /\ \A k \in 1..Len(failedRecords) :
                  Includes(issues[Len(errors) + k].message,
                           "(" \o ToString(failedRecords[k].status) \o ")")
            /\ ~bundle.performance.present => perf = <<>>
            /\ Len(broken) <= 1

\* C18 witness: a bundle with a console error, a failed request, a slow
\* snapshot and status 404 gives the five issues in that order
C18_Witness ==
    /\ input.kind = "bundle" /\ Len(results) >= 1
    /\ Categories(results[1]) =
          << "CONSOLE_ERROR", "NETWORK_FAILURE", "PERFORMANCE", "PERFORMANCE",
             "BROKEN_LINK" >>

\* C19: there is exactly one BROKEN_LINK issue, rated MEDIUM, when the page's
\* HTTP status is 400 or more, and none otherwise, so none for the status 0 of a
\* navigation without response.
C19_BrokenLink ==
    \A c \in Detected :
        LET broken == OfCategory(results[c], "BROKEN_LINK") IN
        /\ Len(broken) = (IF input.bundle.httpStatus >= 400 THEN 1 ELSE 0)
        /\ \A k \in 1..Len(broken) : broken[k].severity = "MEDIUM"
        /\ input.bundle.httpStatus = 0 => broken = <<>>

\* C19 witness: status 500 gives one BROKEN_LINK issue rated MEDIUM
C19_Witness ==
    /\ input.kind = "bundle" /\ Len(results) >= 1
    /\ input.bundle.httpStatus = 500
    /\ Len(OfCategory(results[1], "BROKEN_LINK")) = 1
    /\ OfCategory(results[1], "BROKEN_LINK")[1].severity = "MEDIUM"

\* an issue without its identifier and its timestamp
Content(issue) ==
    [severity |-> issue.severity, category |-> issue.category, url |-> issue.url,
     message |-> issue.message, stackTrace |-> issue.stackTrace,
     location |-> issue.location, fix |-> issue.fix,
     autoFixable |-> issue.autoFixable]

\* whether two issue lists have the same length and agree issue by issue in
\* everything but the identifier and the timestamp
SameContent(a, b) ==
    /\ Len(a) = Len(b)
    /\ \A k \in 1..Len(a) : Content(a[k]) = Content(b[k])

\* C20 as stated: two calls of detectIssues on the same bundle return lists of
\* the same length that agree issue by issue in identifier, severity, category,
\* message, location, fix and autoFixable.
C20_IdenticalLists ==
    (input.kind = "bundle" /\ Len(results) = 2) =>
        /\ SameContent(results[1], results[2])
        /\ \A k \in 1..Len(results[1]) : results[1][k].id = results[2][k].id

\* C20 amended: a call of detectIssues changes only its result, neither its
\* input nor the scanner's state, and two calls on the same bundle return lists
\* of the same length that agree issue by issue in severity, category, url,
\* message, stack trace, location, fix and autoFixable; the identifier and the
\* timestamp of an issue are drawn by each call and need not agree.
C20_SameApartFromIdAndTimestamp ==
    [][ (input.kind = "bundle" /\ results' # results) =>
            /\ input' = input
            /\ UNCHANGED << pc, config, browser, page, visitedUrls, urlQueue,
                            pagesScanned, issuesFound, criticalIssues, url, runId,
                            output, error, failedAt, closeCalls >>
            /\ Len(results') = 2 => SameContent(results'[1], results'[2]) ]_vars

\* C20 witness: two calls on one bundle whose issues agree in content and differ
\* in an identifier
C20_Witness ==
    /\ input.kind = "bundle" /\ Len(results) = 2
    /\ results[1] # <<>>
    /\ SameContent(results[1], results[2])
    /\ results[1][1].id # results[2][1].id

\* C21 as stated: in a run with criticalOnly set, every issue written to the
\* output stream and every issue shown in the console feedback is CRITICAL.
C21_OnlyCriticalReported ==
    (input.kind = "site" /\ config.criticalOnly) =>
        /\ \A k \in 1..Len(StreamLines(output)) :
              StreamLines(output)[k].json.type = "issue" =>
                  StreamLines(output)[k].json.severity = "CRITICAL"
        /\ \A k \in 1..Len(ConsoleLines(output)) :
              ConsoleLines(output)[k].feedback = "CRITICAL" =>
                  ConsoleLines(output)[k].issue.severity = "CRITICAL"

\* C22: a second run on the same site with the same configuration but other
\* values of criticalOnly, minSeverity, maxDepth and parallelPages emits, at
\* every moment, a prefix of what the first run emitted and visits only pages the
\* first run visited; once it has ended it has emitted the same outputs in the
\* same order, visited the same pages and ended the same way.
C22_OptionsDoNotMatter ==
    (input.kind = "site" /\ results # <<>>) =>
        /\ Len(output) <= Len(results[1].output)
        /\ output = SubSeq(results[1].output, 1, Len(output))
        /\ visitedUrls \subseteq results[1].visited
        /\ pc \in { "returned", "rejected" } =>
              /\ output = results[1].output
              /\ visitedUrls = results[1].visited
              /\ error = results[1].error

\* C22 witness: a second run with criticalOnly set, a minimum severity, depth 1
\* and two parallel pages has ended after emitting issues below CRITICAL
C22_Witness ==
    /\ input.kind = "site" /\ results # <<>>
    /\ pc = "returned"
    /\ config.criticalOnly /\ config.minSeverity = Present("HIGH")
    /\ config.maxDepth = 1 /\ config.parallelPages = 2
    /\ Cardinality(visitedUrls) = MaxPagesCfg
    /\ \E k \in 1..Len(output) :
          output[k].type = "issue" /\ output[k].severity = "MEDIUM"

\* the positions of the page outputs of u with one of the statuses
PageEvents(u, statuses) == { i \in Idx : IsPage(output[i], u, statuses) }

Terminal == { "complete", "failed" }

\* the positions up to i of the terminal page outputs
TerminalUpTo(i) ==
    { j \in 1..i : output[j].type = "page" /\ output[j].status \in Terminal }

\* C23 as stated: a URL whose visit failed is in the visited set, is not in the
\* queue, has one 'scanning' output only, and once its visit is over it is
\* counted in pagesScanned; the totalPages of scan_complete is the number of
\* visits that ended, failed ones included.
C23_FailedCountedNotRetried ==
    /\ \A u \in SitePages : \A i \in PageEvents(u, { "failed" }) :
          /\ u \in visitedUrls
          /\ u \notin Range(urlQueue)
          /\ Cardinality(PageEvents(u, { "scanning" })) = 1
          /\ (pc = "closePage" /\ url = u) \/
                pagesScanned >= Cardinality(TerminalUpTo(i))
    /\ \A k \in Idx : output[k].type = "scan_complete" =>
          output[k].totalPages = Cardinality(TerminalUpTo(k))

\* C24: at every moment of a run, a 'scanning' page output is the first page or
\* issue output of its URL, and a terminal page output of the URL follows it
\* unless the visit of that URL is at an awaited step of its try block, so that
\* the terminal output is still to come; a terminal page output and an issue
\* output come after the 'scanning' output of their URL; and no page output of
\* the URL, 'scanning' or terminal, follows its terminal one.
C24_PageStateMachine ==
    [](\A i \in Idx :
          LET e == output[i] IN
          /\ e.type = "issue" =>
                \E j \in 1..(i - 1) : IsPage(output[j], e.url, { "scanning" })
          /\ e.type = "page" =>
                IF e.status = "scanning"
                THEN /\ \A j \in 1..(i - 1) :
                          output[j].type \in { "page", "issue" } => output[j].url # e.url
                     /\ \/ (url = e.url /\ pc \in TrySteps)
                        \/ \E j \in (i + 1)..Len(output) :
                              IsPage(output[j], e.url, Terminal)
                ELSE /\ e.status \in Terminal
                     /\ \E j \in 1..(i - 1) : IsPage(output[j], e.url, { "scanning" })
                     /\ \A j \in (i + 1)..Len(output) :
                          output[j].type = "page" => output[j].url # e.url)

\* C24 witness: a finished run with a completed page that has issues on both
\* sides of its 'complete' output, and a failed page
C24_Witness ==
    /\ pc = "returned"
    /\ \E u, v \in SitePages :
          /\ PageEvents(u, { "complete" }) # {}
          /\ PageEvents(v, { "failed" }) # {}
          /\ \E i, j \in Idx : \E t \in PageEvents(u, { "complete" }) :
                /\ i < t /\ t < j
                /\ output[i].type = "issue" /\ output[i].url = u
                /\ output[j].type = "issue" /\ output[j].url = u

\* C25 as stated: without progressive no progress output is emitted; with it the
\* k-th progress output reports k pages scanned; every progress output follows a
\* terminal page output with only issues of that page in between; a progress
\* output stands between a terminal page output and any later 'scanning' output;
\* every visit that is over has its progress output; and right after a progress
\* output was emitted its totalPages is visited.size + queue.length.
C25_OneProgressPerVisit ==
    LET P == { i \in Idx : output[i].type = "progress" }
        T == TerminalUpTo(Len(output))
        S == { i \in Idx : output[i].type = "page" /\ output[i].status = "scanning" }
    IN  /\ ~config.progressive => P = {}
        /\ config.progressive =>
            /\ \A q \in P :
                  output[q].pagesScanned = Cardinality({ r \in P : r <= q })
            /\ \A q \in P : \E t \in T :
                  /\ t < q
                  /\ \A j \in (t + 1)..(q - 1) :
                        output[j].type = "issue" /\ output[j].url = output[t].url
            /\ \A t \in T : \A n \in S :
                  (t < n) => \E q \in P : t < q /\ q < n
            /\ pc # "closePage" => Cardinality(P) = Cardinality(T)
            /\ (pc = "loop" /\ P # {} /\ output[Len(output)].type = "progress") =>
                  /\ output[Len(output)].totalPages =
                        Cardinality(visitedUrls) + Len(urlQueue)
                  /\ output[Len(output)].pagesScanned = pagesScanned

\* C26: at every moment of a run, a page context is open only during a visit
\* (from newPage to the end of page.close()) or after page.close() itself
\* rejected; no page context is open
\* when browser.newPage() is called for the next visit; every context opened,
\* one per 'scanning' output, has been closed and counted except the open one;
\* and when scan() returns, every page context is closed and so is the browser.
C26_PageContextPerVisit ==
    [](LET opened == Cardinality({ i \in Idx : output[i].type = "page"
                                                /\ output[i].status = "scanning" })
       IN  /\ page = "open" =>
                 \/ pc \in TrySteps \cup { "closePage" }
                 \/ (pc \in { "finally", "rejected" }
                        /\ error \in { "pageClose", "browserClose" })
           /\ pc = "newPage" => page # "open"
           /\ opened - pagesScanned = IF page = "open" THEN 1 ELSE 0
           /\ (browser = "null" /\ closeCalls > 0 /\ error = "none") => page # "open"
           /\ pc = "returned" => (page # "open" /\ browser = "null"))

\* C26 witness: the third visit has its page context open after the two visits
\* before it, one of which failed, have closed theirs
C26_Witness ==
    /\ page = "open" /\ pc = "goto"
    /\ pagesScanned = 2
    /\ \E u \in SitePages : PageEvents(u, { "failed" }) # {}

\* C28: no step of a run decreases pagesScanned, issuesFound or criticalIssues,
\* and after every step criticalIssues is at most issuesFound.
C28_CountersMonotone ==
    [][ /\ pagesScanned' >= pagesScanned
        /\ issuesFound' >= issuesFound
        /\ criticalIssues' >= criticalIssues
        /\ criticalIssues' <= issuesFound' ]_vars

\* C28 witness: two pages counted, the second one's issues added to the first
\* one's, some of them CRITICAL and some not
C28_Witness ==
    /\ pagesScanned = 2
    /\ issuesFound = 7
    /\ criticalIssues = 3

\* C29 as stated, for a run with progressive output: with prioritizeCritical
\* disabled, the issue outputs of a completed page are the issues detectIssues
\* returned for it, in that order.
C29_IssuesStillEmitted ==
    (config.progressive /\ ~config.prioritizeCritical) =>
        \A u \in SitePages : \A t \in PageEvents(u, { "complete" }) :
            SelectSeq(output, LAMBDA o : o.type = "issue" /\ o.url = u)
                = output[t].issues

\* the URLs in the order of their visits ('scanning' outputs), then the URL taken
\* from the queue whose visit has not begun, then the queue
VisitOrder ==
    LET scanning == SelectSeq(output, LAMBDA o : o.type = "page" /\ o.status = "scanning")
        scanned == [k \in 1..Len(scanning) |-> scanning[k].url]
        taken == IF url \in visitedUrls /\ url \notin Range(scanned)
                 THEN << url >> ELSE <<>>
    IN  scanned \o taken \o urlQueue

\* the links of a list that are new to the known URLs and may be queued, each
\* once, in the order in which the list first holds them
RECURSIVE NewIn(_, _)
NewIn(links, known) ==
    IF links = <<>> THEN <<>>
    ELSE LET link == Head(links)
             new == /\ link.valid
                    /\ link.origin = SiteOrigin
                    /\ ShouldIncludeUrl(link, config.includePatterns,
                                        config.excludePatterns)
                    /\ link \notin known
         IN  IF new THEN << link >> \o NewIn(Tail(links), known \cup { link })
             ELSE NewIn(Tail(links), known)

\* C30: take the URLs visited so far, in the order of their 'scanning' outputs,
\* followed by the queue. The first step that changes this sequence makes it the
\* base URL alone; the link discovery of a page appends to it the URLs the page
\* adds to the queue, in the order in which its links first name them; no other
\* step changes it. So a URL enters at the end when it is added to the queue,
\* and is visited when all those before it have been.
C30_FifoOrder ==
    [][ LET before == VisitOrder
            after == VisitOrder'
        IN  IF pc = "links" /\ failedAt' # "links"
            THEN \E links \in LinkLists(url) :
                    after = before \o NewIn(links, Range(before))
            ELSE \/ after = before
                 \/ (before = <<>> /\ after = << BaseUrl >>) ]_vars

\* C30 witness: three pages visited, the third page of the site before the
\* second because it was queued first
C30_Witness ==
    /\ urlQueue = <<>>
    /\ Len(VisitOrder) = 3
    /\ VisitOrder[2] = NextPage(NextPage(BaseUrl))
    /\ \A k \in 1..3 : PageEvents(VisitOrder[k], Terminal) # {}

\* C27: every request is decided by itself: the handler makes exactly one call
\* on its route; the call is abort when external blocking is set, the request is
\* not of the base URL's origin and its URL contains none of the allowed
\* domains, and when the request's resource type is among the blocked ones,
\* whatever its origin and the allowed domains; otherwise it is continue.
C27_RouteDecision ==
    input.kind = "route" =>
        \A k \in 1..Len(results) :
            LET request == input.requests[k]
                cfg == input.config
                external == ~StartsWith(request.url, cfg.baseUrl)
                whitelisted ==
                    /\ cfg.allowedDomains.present
                    /\ \E d \in Range(cfg.allowedDomains.value) :
                          Includes(request.url, d)
                typeBlocked ==
                    /\ cfg.blockedResourceTypes.present
                    /\ request.resourceType \in Range(cfg.blockedResourceTypes.value)
                aborted == \/ (cfg.blockExternalResources /\ external /\ ~whitelisted)
                           \/ typeBlocked
            IN  /\ Len(results[k]) = 1
                /\ results[k][1] = IF aborted THEN "abort" ELSE "continue"

\* C27 witness: with external blocking, a whitelist and a blocked type, a
\* whitelisted external image was aborted and then a whitelisted external script
\* continued
C27_Witness ==
    /\ input.kind = "route" /\ Len(results) = 2
    /\ input.config.blockExternalResources
    /\ input.config.allowedDomains = Present(<< "cdn.x" >>)
    /\ input.config.blockedResourceTypes = Present(<< "image" >>)
    /\ input.requests = << [url |-> "http://cdn.x/lib.js", resourceType |-> "image"],
                           [url |-> "http://ads.y/?u=cdn.x", resourceType |-> "script"] >>
    /\ results = << << "abort" >>, << "continue" >> >>

\* the links of a list that new URL() accepts, in the list's order
WellFormed(links) == SelectSeq(links, LAMBDA l : l.valid)

\* C31: the admission loop over a link list returns (it raises nothing), the
\* queue it leaves holds no malformed link, and it is the queue the well-formed
\* links of the list alone give: the old queue followed by those of them that are
\* new and admissible, those before a malformed link and those after it alike.
C31_MalformedLinkDropped ==
    (input.kind = "admitLinks" /\ results # <<>>) =>
        /\ Len(results) = 1
        /\ \A l \in Range(results[1]) : l.valid
        /\ results[1] = input.queue \o
              NewIn(WellFormed(input.links), input.visited \cup Range(input.queue))

\* C31 witness: a malformed link followed by a new page of the site, which is
\* queued behind a non-empty queue
C31_Witness ==
    /\ input.kind = "admitLinks" /\ results # <<>>
    /\ input.queue # <<>>
    /\ Len(input.links) = 2
    /\ input.links[1] = BadLink
    /\ input.links[2] \in SitePages
    /\ results[1] = Append(input.queue, input.links[2])

\* C32 as stated: whenever a call of scan() has launched the browser and queued
\* the base URL, at the start of its loop, the three counters are 0, the visited
\* set is empty and the queue holds the base URL alone.
C32_FreshRunState ==
    [][ (pc = "launch" /\ pc' = "loop") =>
            /\ pagesScanned' = 0
            /\ issuesFound' = 0
            /\ criticalIssues' = 0
            /\ visitedUrls' = {}
            /\ urlQueue' = << BaseUrl >> ]_vars

\* C33: in a run on a fresh Scanner, at the head of every loop iteration
\* pagesScanned is the size of the visited set, and when the loop goes on the URL
\* it takes from the queue is unvisited: the iteration marks exactly that URL
\* visited and begins its visit, the skip branch is not taken.
C33_SkipBranchNeverTaken ==
    [][ pc = "loop" =>
            /\ pagesScanned = Cardinality(visitedUrls)
            /\ LoopGuard =>
                  /\ Head(urlQueue) \notin visitedUrls
                  /\ pc' = "newPage"
                  /\ url' = Head(urlQueue)
                  /\ visitedUrls' = visitedUrls \cup { Head(urlQueue) }
                  /\ Cardinality(visitedUrls') = pagesScanned + 1 ]_vars

\* C33 witness: the third iteration of the loop has taken its URL, while a page
\* visited before linked back to visited and queued pages
C33_Witness ==
    /\ pc = "newPage"
    /\ pagesScanned = 2
    /\ Cardinality(visitedUrls) = 3
    /\ \E u \in SitePages : \E t \in PageEvents(u, { "complete" }) : TRUE

\* the issues carried by the 'complete' page outputs among the first n outputs,
\* page after page
RECURSIVE DetectedUpTo(_)
DetectedUpTo(n) ==
    IF n = 0 THEN <<>>
    ELSE DetectedUpTo(n - 1) \o
            (IF output[n].type = "page" /\ output[n].status = "complete"
             THEN output[n].issues ELSE <<>>)

C35_FailedPageContributesNothing ==
    [][ /\ (pc \in TrySteps /\ (pc # "links" \/ failedAt' = "links")) =>
              /\ UNCHANGED << issuesFound, criticalIssues, urlQueue, visitedUrls >>
              /\ failedAt' = pc =>
                    /\ output' = Append(output, PageFailed(url))
                    /\ \A i \in Idx : output[i].type = "issue" => output[i].url # url
        /\ (pc = "closePage" /\ failedAt # "none") =>
              /\ UNCHANGED << issuesFound, criticalIssues, urlQueue, visitedUrls >>
              /\ \A i \in 1..Len(output') : output'[i].type = "issue" =>
                    output'[i].url # url ]_vars

\* C35 witness: the link evaluation of the second page rejected, after a first
\* page with issues had queued it and another page; the visit is closed
C35_Witness ==
    /\ pc = "loop"
    /\ failedAt = "links"
    /\ pagesScanned = 2
    /\ issuesFound > 0
    /\ urlQueue # <<>>
    /\ PageEvents(url, { "failed" }) # {}

\* C36: with a configuration whose patterns reject the base URL, the launch
\* queues the base URL all the same, the first loop iteration takes it and
\* begins its visit, and every 'scanning' output is preceded by the base URL's;
\* every other URL queued or visited passed the filter, and the base URL named
\* by a link does not: were it neither visited nor queued, the admission loop
\* would still leave the queue without it.
C36_BaseUrlNotFiltered ==
    [][ /\ ~ShouldIncludeUrl(BaseUrl, config.includePatterns, config.excludePatterns)
        /\ (pc = "launch" /\ pc' = "loop") => urlQueue' = << BaseUrl >>
        /\ (pc = "loop" /\ visitedUrls = {}) =>
              /\ pc' = "newPage"
              /\ url' = BaseUrl
              /\ visitedUrls' = { BaseUrl }
        /\ \A i \in 1..Len(output') :
              IsPage(output'[i], output'[i].url, { "scanning" }) =>
                  \E j \in 1..i : IsPage(output'[j], BaseUrl, { "scanning" })
        /\ \A u \in (Range(urlQueue') \cup visitedUrls') \ { BaseUrl } :
              ShouldIncludeUrl(u, config.includePatterns, config.excludePatterns)
        /\ AdmitLinks(<<>>, {}, << BaseUrl >>) = <<>>
        /\ BaseUrl \in visitedUrls' =>
              \A links \in LinkLists(url') :
                  BaseUrl \notin Range(AdmitLinks(urlQueue', visitedUrls', links)) ]_vars

\* C36 witness: the base URL, which an exclude pattern matches, was visited and
\* completed, and a page it links to is being visited
C36_Witness ==
    /\ input = NoInput
    /\ config.excludePatterns = << { BaseUrl } >>
    /\ PageEvents(BaseUrl, { "complete" }) # {}
    /\ pc = "goto"
    /\ url # BaseUrl

\* the list a 'complete' page output carries, empty when it carries none
Carried(field) == IF field.present THEN field.value ELSE <<>>

\* C37: when link discovery returns, the visit appends one 'complete' page
\* output whose issues are, identifiers and timestamps apart, detectIssues of the
\* console logs, network requests, performance and status that this very output
\* carries, the counters grow by
\* the numbers of that list and the issue outputs appended are its issues; no
\* other step of the visit, and no callback, changes a counter or appends an
\* issue or a 'complete' output.
C37_DetectionAndEmissionAtomic ==
    [][ input.kind = "visit" =>
          LET added == (Len(output) + 1)..Len(output')
          IN  IF pc = "links" /\ pc' = "closePage"
              THEN \E k \in added :
                     /\ output'[k].type = "page" /\ output'[k].status = "complete"
                     /\ LET e == output'[k]
                            logs == Carried(e.consoleLogs)
                            requests == Carried(e.networkRequests)
                            n == Len(logs) + Len(requests) + 3
                            context == Bundle(logs, requests, e.performance,
                                              e.httpStatus)
                            ids == CHOOSE stream \in IdStreams(n) : TRUE
                            stamps == CHOOSE clock \in Clocks(n, 1) : TRUE
                        IN  /\ \E detected \in { DetectIssuesIn(context, ids, stamps) } :
                                   SameContent(e.issues, detected)
                            /\ issuesFound' = issuesFound + Len(e.issues)
                            /\ criticalIssues' = criticalIssues
                                  + Len(FilterCritical(e.issues, TRUE))
                            /\ { output'[i] : i \in added \ { k } } = Range(e.issues)
                            /\ Len(output') = Len(output) + 1 + Len(e.issues)
              ELSE /\ issuesFound' = issuesFound
                   /\ criticalIssues' = criticalIssues
                   /\ \A k \in added :
                         /\ output'[k].type # "issue"
                         /\ ~(output'[k].type = "page" /\ output'[k].status = "complete")
      ]_vars

\* C37 witness: a console error was logged before link discovery returned and is
\* an issue of the 'complete' output; another one was logged while page.close()
\* was pending and is in the collector only
C37_Witness ==
    /\ input.kind = "visit"
    /\ pc = "loop"
    /\ Len(results.consoleLogs) = 2
    /\ results.consoleLogs[2].type = "error"
    /\ \E k \in Idx :
          /\ output[k].type = "page" /\ output[k].status = "complete"
          /\ output[k].consoleLogs = Present(<< results.consoleLogs[1] >>)
          /\ Len(output[k].issues) = 1
          /\ issuesFound = 1

\* C38: when suggestFix reaches the missing-dependency rule (the message has no
\* INSUFFICIENT_PATH) and the message contains 'Cannot find module' without a
\* quoted module name, the result is the suggestion of the first rule after the
\* missing-dependency rule that the message satisfies, or none when it
\* satisfies no later rule; it is never an install suggestion.
C38_UnquotedModuleFallsThrough ==
    (/\ input.kind = "message"
     /\ results # <<>>
     /\ results[1].call = "suggestFix"
     /\ Includes(input.message, "Cannot find module")
     /\ ~Includes(input.message, "INSUFFICIENT_PATH")
     /\ ModuleMatchStarts(input.message) = {}) =>
        LET table == FixRuleTable(input.message)
            later == { i \in 3..Len(table) : table[i].holds }
            fix == results[1].value
        IN  /\ later = {} => ~fix.present
            /\ later # {} =>
                  LET first == CHOOSE i \in later : \A k \in later : i <= k
                  IN  /\ fix.present
                      /\ fix.description = table[first].description
                      /\ fix.confidence = table[first].confidence
            /\ fix.present => ~StartsWith(fix.description, "Install missing dependency")

\* C38 witness: an unquoted missing-module message that also mentions a heap
\* problem got the memory suggestion, the first later rule it satisfies
C38_Witness ==
    /\ input.kind = "message"
    /\ input.message = "Cannot find module lodash heap"
    /\ results # <<>>
    /\ results[1].call = "suggestFix"
    /\ results[1].value.present
    /\ results[1].value.confidence = 80

====
